---- MODULE Spec2Model ----
(***************************************************************************)
(* Grocery management system: entity model, JSON-file repositories and     *)
(* the domain services (catalog, shopping/checkout, order management,      *)
(* inventory restock, supplier purchase orders) as a state machine.        *)
(*                                                                         *)
(* Text is modelled as a sequence of one-character strings so that         *)
(* str.lower() is computed.  Prices and amounts are whole currency units.  *)
(* A collection file holds the sequence of serialized mappings (dicts);    *)
(* load_all rebuilds the objects with from_dict, save_all writes to_dict.  *)
(***************************************************************************)
EXTENDS Integers, Sequences, FiniteSets, TLC

VARIABLES
    productsFile,   \* data/products.json : sequence of product dicts
    ordersFile,     \* data/orders.json   : sequence of order dicts
    suppliersFile,  \* data/suppliers.json: sequence of supplier dicts
    cart,           \* ShoppingService.cart.items of the one shopping session
    now,            \* the wall clock read by datetime.now()
    obj,            \* the entity object a method is called on directly
    last,           \* the last operation, its inputs' outcome and what it printed
    hist,           \* the repository observed, its insertions and whether it saw a deletion
    usersFile,      \* data/users.json    : sequence of user dicts
    pending         \* local variables of an operation that waits at an input prompt

vars == <<productsFile, ordersFile, suppliersFile, cart, now, obj, last, hist, usersFile,
         pending>>

----------------------------------------------------------------------------
(* Bounds of the model *)

MaxProducts == 2
MaxOrders == 2
MaxSuppliers == 2
MaxQty == 2
MaxTime == 1
MaxItems == 2
MaxUnitQty == 8
RevMaxOrders == 3
ShopMaxProducts == 2
ShopMaxOrders == 1
ShopMaxSuppliers == 1
ShopMaxPurchases == 1
MaxUsers == 4
MaxFileEntities == 2
MaxRepoId == 3
MaxCartQty == 3
StepsMaxOrders == 1
StepsMaxProducts == 2
StepsMaxQty == 1
FrameMaxProducts == 2
FrameMaxOrders == 1
PurchaseMaxProducts == 2
PurchaseMaxQty == 3
PurchaseMaxSuppliers == 2
PurchaseMaxOrders == 1
SnapshotMaxOrders == 1
InterleaveMaxOrders == 2
InterleaveMaxQty == 3
CartStockMaxQty == 4

(* Program constants *)

LowStockThreshold == 10
MaxQuantityInput == 100000
DefaultRating == 50
MaxRating == 50

----------------------------------------------------------------------------
(* Python helpers *)

Range(s) == {s[i] : i \in 1..Len(s)}

MaxOf(S) == CHOOSE m \in S : \A x \in S : x <= m

MinOf(S) == CHOOSE m \in S : \A x \in S : m <= x

RECURSIVE SumSeq(_)
SumSeq(s) == IF s = <<>> THEN 0 ELSE Head(s) + SumSeq(Tail(s))

Upper == <<"A", "B", "C", "D", "E", "F", "G", "H", "I", "J", "K", "L", "M",
           "N", "O", "P", "Q", "R", "S", "T", "U", "V", "W", "X", "Y", "Z">>

Lowercase == <<"a", "b", "c", "d", "e", "f", "g", "h", "i", "j", "k", "l", "m",
               "n", "o", "p", "q", "r", "s", "t", "u", "v", "w", "x", "y", "z">>

LowerChar(c) ==
    IF \E k \in 1..Len(Upper) : Upper[k] = c
    THEN Lowercase[CHOOSE k \in 1..Len(Upper) : Upper[k] = c]
    ELSE c

Lower(s) == [i \in 1..Len(s) |-> LowerChar(s[i])]

Yes == <<"y", "e", "s">>

----------------------------------------------------------------------------
(* Entity model: Product *)

Product(id, name, category, quantity, price) ==
    [id |-> id, name |-> name, category |-> category,
     quantity |-> quantity, price |-> price]

is_in_stock(p) == p.quantity > 0

is_out_of_stock(p) == p.quantity = 0

is_low_stock(p, threshold) == 0 < p.quantity /\ p.quantity < threshold

\* variant of restock that adds to the quantity stored now, not to the one read
restock_stored(p, quantity) ==
    LET ks == {i \in 1..Len(productsFile) : productsFile[i].id = p.id}
    IN IF quantity > 0
       THEN [ok |-> TRUE,
             product |-> [p EXCEPT !.quantity =
                            (IF ks = {} THEN p.quantity
                             ELSE productsFile[MinOf(ks)].quantity) + quantity]]
       ELSE [ok |-> FALSE, product |-> p]

restock(p, quantity) ==
    IF quantity > 0
    THEN [ok |-> TRUE, product |-> [p EXCEPT !.quantity = p.quantity + quantity]]
    ELSE [ok |-> FALSE, product |-> p]

\* faulty variant of reduce_stock: refuses the last unit (< for <=)
reduce_stock_strict(p, quantity) ==
    IF quantity < p.quantity
    THEN [ok |-> TRUE, product |-> [p EXCEPT !.quantity = p.quantity - quantity]]
    ELSE [ok |-> FALSE, product |-> p]

reduce_stock(p, quantity) ==
    IF quantity <= p.quantity
    THEN [ok |-> TRUE, product |-> [p EXCEPT !.quantity = p.quantity - quantity]]
    ELSE [ok |-> FALSE, product |-> p]

ProductToDict(p) ==
    [id |-> p.id, name |-> p.name, category |-> p.category,
     quantity |-> p.quantity, price |-> p.price]

ProductFromDict(d) == Product(d.id, d.name, d.category, d.quantity, d.price)

----------------------------------------------------------------------------
(* Entity model: OrderItem and Order *)

OrderItem(product_id, product_name, quantity, price) ==
    [product_id |-> product_id, product_name |-> product_name,
     quantity |-> quantity, price |-> price]

get_subtotal(item) == item.quantity * item.price

OrderItemToDict(item) ==
    [product_id |-> item.product_id, product_name |-> item.product_name,
     quantity |-> item.quantity, price |-> item.price,
     subtotal |-> get_subtotal(item)]

\* faulty variant of from_dict: name and price are read from the live product
OrderItemFromDict_live(d) ==
    LET ks == {i \in 1..Len(productsFile) : productsFile[i].id = d.product_id}
    IN IF ks = {}
       THEN OrderItem(d.product_id, <<>>, d.quantity, 0)
       ELSE OrderItem(d.product_id, productsFile[MinOf(ks)].name, d.quantity,
                      productsFile[MinOf(ks)].price)

OrderItemFromDict(d) == OrderItem(d.product_id, d.product_name, d.quantity, d.price)

\* Order.__init__: no items yet, the creation time read from the clock t
Order(order_id, customer_name, customer_phone, status, t) ==
    [order_id |-> order_id, customer_name |-> customer_name,
     customer_phone |-> customer_phone, items |-> <<>>,
     status |-> status, order_date |-> t]

\* faulty variant of add_item: the item is not appended
add_item_dropped(order, order_item) == order

add_item(order, order_item) == [order EXCEPT !.items = Append(order.items, order_item)]

calculate_total(order) ==
    SumSeq([i \in 1..Len(order.items) |-> get_subtotal(order.items[i])])

ValidStatuses == <<"Pending", "Processing", "Shipped", "Delivered", "Cancelled", "Completed">>

\* faulty variant of update_status: no membership test
update_status_any(order, new_status) ==
    [ok |-> TRUE, order |-> [order EXCEPT !.status = new_status]]

update_status(order, new_status) ==
    IF new_status \in Range(ValidStatuses)
    THEN [ok |-> TRUE, order |-> [order EXCEPT !.status = new_status]]
    ELSE [ok |-> FALSE, order |-> order]

\* faulty variant of is_completed: Delivered forgotten
is_completed_only(order) == order.status = "Completed"

is_completed(order) == order.status \in {"Completed", "Delivered"}

OrderToDict(order) ==
    [order_id |-> order.order_id, customer_name |-> order.customer_name,
     customer_phone |-> order.customer_phone,
     items |-> [i \in 1..Len(order.items) |-> OrderItemToDict(order.items[i])],
     total_amount |-> calculate_total(order),
     order_date |-> order.order_date, status |-> order.status]

\* data.get(key, default) on a mapping
Get(d, key, default) == IF key \in DOMAIN d THEN d[key] ELSE default

\* faulty variant of from_dict: the stored order_date is not restored
OrderFromDict_fresh_date(d, t) ==
    [Order(d.order_id, d.customer_name, d.customer_phone, Get(d, "status", "Pending"), t)
        EXCEPT !.items = LET its == Get(d, "items", <<>>)
                         IN [i \in 1..Len(its) |-> OrderItemFromDict(its[i])]]

OrderFromDict(d, t) ==
    LET order == Order(d.order_id, d.customer_name, d.customer_phone,
                       Get(d, "status", "Pending"), t)
        its == Get(d, "items", <<>>)
    IN [order EXCEPT !.order_date = Get(d, "order_date", order.order_date),
                     !.items = [i \in 1..Len(its) |-> OrderItemFromDict(its[i])]]

----------------------------------------------------------------------------
(* Entity model: User *)

User(name, dob, phone, location, password, role) ==
    [name |-> name, dob |-> dob, phone |-> phone, location |-> location,
     password |-> password, role |-> role]

UserToDict(u) ==
    [name |-> u.name, dob |-> u.dob, phone |-> u.phone, location |-> u.location,
     password |-> u.password, role |-> u.role]

UserFromDict(d) ==
    User(d.name, d.dob, d.phone, d.location, d.password,
         IF "role" \in DOMAIN d THEN d.role ELSE "user")

\* the users file initialize_json_files writes
BootstrapUsers ==
    <<[name |-> <<"A", "d", "m", "i", "n">>, dob |-> "01-01-2000", phone |-> "admin",
       location |-> "System", password |-> "admin123", role |-> "admin"]>>

----------------------------------------------------------------------------
(* Entity model: Supplier (the free-text fields no operation reads are left out) *)

Supplier(id, name, phone, t) ==
    [id |-> id, name |-> name, phone |-> phone,
     total_orders |-> 0, total_amount |-> 0, rating |-> DefaultRating,
     status |-> "Active", added_date |-> t]

\* faulty variant of update_rating: no range test
update_rating_unchecked(s, new_rating) ==
    [ok |-> TRUE, supplier |-> [s EXCEPT !.rating = new_rating]]

\* ratings are in tenths: 0 <= new_rating <= 5 is 0 <= tenths <= MaxRating
update_rating(s, new_rating) ==
    IF 0 <= new_rating /\ new_rating <= MaxRating
    THEN [ok |-> TRUE, supplier |-> [s EXCEPT !.rating = new_rating]]
    ELSE [ok |-> FALSE, supplier |-> s]

\* faulty variant of record_purchase: the order is not counted
record_purchase_uncounted(s, amount) ==
    [s EXCEPT !.total_amount = s.total_amount + amount]

record_purchase(s, amount) ==
    [s EXCEPT !.total_orders = s.total_orders + 1,
              !.total_amount = s.total_amount + amount]

SupplierToDict(s) ==
    [id |-> s.id, name |-> s.name, phone |-> s.phone,
     total_orders |-> s.total_orders, total_amount |-> s.total_amount,
     rating |-> s.rating, status |-> s.status, added_date |-> s.added_date]

SupplierFromDict(d, t) ==
    LET s == Supplier(d.id, d.name, d.phone, t)
    IN [s EXCEPT !.total_orders = Get(d, "total_orders", 0),
                 !.total_amount = Get(d, "total_amount", 0),
                 !.rating = Get(d, "rating", DefaultRating),
                 !.status = Get(d, "status", "Active"),
                 !.added_date = Get(d, "added_date", s.added_date)]

----------------------------------------------------------------------------
(* Entity model: ShoppingCart *)

CartLine(product, quantity) ==
    [id |-> product.id, name |-> product.name, price |-> product.price, qty |-> quantity]

\* faulty variant of add_item: the quantity of an existing line is overwritten
cart_add_item_overwrite(items, product, quantity) ==
    IF \E i \in 1..Len(items) : items[i].id = product.id
    THEN LET k == MinOf({i \in 1..Len(items) : items[i].id = product.id})
         IN [items EXCEPT ![k].qty = quantity]
    ELSE Append(items, CartLine(product, quantity))

cart_add_item(items, product, quantity) ==
    IF \E i \in 1..Len(items) : items[i].id = product.id
    THEN LET k == MinOf({i \in 1..Len(items) : items[i].id = product.id})
         IN [items EXCEPT ![k].qty = items[k].qty + quantity]
    ELSE Append(items, CartLine(product, quantity))

cart_remove_item(items, product_id) ==
    SelectSeq(items, LAMBDA item : item.id # product_id)

\* faulty variant of clear: the lines stay
cart_clear_kept(items) == items

cart_clear(items) == <<>>

----------------------------------------------------------------------------
(* Repository layer.  The four ProductRepository classes (product_manager,  *)
(* user, inventory_manager, supplier_manager) and the two OrderRepository   *)
(* classes share one file each and the same code for the methods below.     *)

LoadProducts(file) == [i \in 1..Len(file) |-> ProductFromDict(file[i])]

SaveProducts(products) == [i \in 1..Len(products) |-> ProductToDict(products[i])]

LoadOrders(file, t) == [i \in 1..Len(file) |-> OrderFromDict(file[i], t)]

SaveOrders(orders) == [i \in 1..Len(orders) |-> OrderToDict(orders[i])]

LoadSuppliers(file, t) == [i \in 1..Len(file) |-> SupplierFromDict(file[i], t)]

SaveSuppliers(suppliers) == [i \in 1..Len(suppliers) |-> SupplierToDict(suppliers[i])]

\* index of the first element the lookup loop returns, 0 for None
FirstIndex(S) == IF S = {} THEN 0 ELSE MinOf(S)

product_find_by_id(file, product_id) ==
    LET products == LoadProducts(file)
    IN FirstIndex({i \in 1..Len(products) : products[i].id = product_id})

\* faulty variant of find_by_name: case-sensitive comparison
product_find_by_name_exact(file, name) ==
    LET products == LoadProducts(file)
    IN FirstIndex({i \in 1..Len(products) : products[i].name = name})

product_find_by_name(file, name) ==
    LET products == LoadProducts(file)
    IN FirstIndex({i \in 1..Len(products) : Lower(products[i].name) = Lower(name)})

repo_add_product(file, product) == SaveProducts(Append(LoadProducts(file), product))

\* faulty variant of update_product: an unknown product is appended
repo_update_product_upsert(file, product) ==
    LET products == LoadProducts(file)
        k == FirstIndex({i \in 1..Len(products) : products[i].id = product.id})
    IN IF k # 0
       THEN [ok |-> TRUE, file |-> SaveProducts([products EXCEPT ![k] = product])]
       ELSE [ok |-> FALSE, file |-> SaveProducts(Append(products, product))]

repo_update_product(file, product) ==
    LET products == LoadProducts(file)
        k == FirstIndex({i \in 1..Len(products) : products[i].id = product.id})
    IN IF k # 0
       THEN [ok |-> TRUE, file |-> SaveProducts([products EXCEPT ![k] = product])]
       ELSE [ok |-> FALSE, file |-> file]

repo_delete_product(file, product_id) ==
    SaveProducts(SelectSeq(LoadProducts(file), LAMBDA p : p.id # product_id))

\* faulty variant of get_next_id: len + 1 for max + 1
product_get_next_id_len(file) == Len(LoadProducts(file)) + 1

product_get_next_id(file) ==
    LET products == LoadProducts(file)
    IN IF products = <<>> THEN 1
       ELSE MaxOf({products[i].id : i \in 1..Len(products)}) + 1

order_find_by_id(file, order_id, t) ==
    LET orders == LoadOrders(file, t)
    IN FirstIndex({i \in 1..Len(orders) : orders[i].order_id = order_id})

save_order(file, order, t) == SaveOrders(Append(LoadOrders(file, t), order))

\* faulty variant of update_order: writes to the first slot
repo_update_order_first(file, order, t) ==
    LET orders == LoadOrders(file, t)
    IN IF \E i \in 1..Len(orders) : orders[i].order_id = order.order_id
       THEN [ok |-> TRUE, file |-> SaveOrders([orders EXCEPT ![1] = order])]
       ELSE [ok |-> FALSE, file |-> file]

repo_update_order(file, order, t) ==
    LET orders == LoadOrders(file, t)
        k == FirstIndex({i \in 1..Len(orders) : orders[i].order_id = order.order_id})
    IN IF k # 0
       THEN [ok |-> TRUE, file |-> SaveOrders([orders EXCEPT ![k] = order])]
       ELSE [ok |-> FALSE, file |-> file]

repo_delete_order(file, order_id, t) ==
    SaveOrders(SelectSeq(LoadOrders(file, t), LAMBDA o : o.order_id # order_id))

order_get_next_id(file, t) ==
    LET orders == LoadOrders(file, t)
    IN IF orders = <<>> THEN 1
       ELSE MaxOf({orders[i].order_id : i \in 1..Len(orders)}) + 1

supplier_find_by_id(file, supplier_id, t) ==
    LET suppliers == LoadSuppliers(file, t)
    IN FirstIndex({i \in 1..Len(suppliers) : suppliers[i].id = supplier_id})

supplier_find_by_phone(file, phone, t) ==
    LET suppliers == LoadSuppliers(file, t)
    IN FirstIndex({i \in 1..Len(suppliers) : suppliers[i].phone = phone})

repo_add_supplier(file, supplier, t) ==
    SaveSuppliers(Append(LoadSuppliers(file, t), supplier))

repo_update_supplier(file, supplier, t) ==
    LET suppliers == LoadSuppliers(file, t)
        k == FirstIndex({i \in 1..Len(suppliers) : suppliers[i].id = supplier.id})
    IN IF k # 0
       THEN [ok |-> TRUE, file |-> SaveSuppliers([suppliers EXCEPT ![k] = supplier])]
       ELSE [ok |-> FALSE, file |-> file]

repo_delete_supplier(file, supplier_id, t) ==
    SaveSuppliers(SelectSeq(LoadSuppliers(file, t), LAMBDA s : s.id # supplier_id))

\* faulty variant of get_next_id: the number of stored suppliers plus one
supplier_get_next_id_count(file, t) == Len(LoadSuppliers(file, t)) + 1

supplier_get_next_id(file, t) ==
    LET suppliers == LoadSuppliers(file, t)
    IN IF suppliers = <<>> THEN 1
       ELSE MaxOf({suppliers[i].id : i \in 1..Len(suppliers)}) + 1

LoadUsers(file) == [i \in 1..Len(file) |-> UserFromDict(file[i])]

SaveUsers(users) == [i \in 1..Len(users) |-> UserToDict(users[i])]

user_find_by_phone(file, phone) ==
    LET users == LoadUsers(file)
    IN FirstIndex({i \in 1..Len(users) : users[i].phone = phone})

repo_add_user(file, user) == SaveUsers(Append(LoadUsers(file), user))

\* faulty variant of user_exists: looks at the first stored user only
user_exists_first(file, phone) ==
    file # <<>> /\ LoadUsers(file)[1].phone = phone

user_exists(file, phone) == user_find_by_phone(file, phone) # 0

----------------------------------------------------------------------------
(* History kept for the properties: for the one repository under          *)
(* observation (hist.repo), the number of insertions since the collection  *)
(* was last empty, counted until the first deletion, and whether anything  *)
(* was deleted since then.                                                 *)

Inserted(h, repo) ==
    IF h.repo = repo /\ ~h.deleted THEN [h EXCEPT !.inserted = @ + 1] ELSE h

Deleted(h, repo, remaining) ==
    IF h.repo # repo THEN h
    ELSE IF remaining = <<>> THEN [h EXCEPT !.inserted = 0, !.deleted = FALSE]
    ELSE [h EXCEPT !.deleted = TRUE]

\* no operation waits at a prompt
NoPending == [op |-> "none"]

\* the user the shopping session was constructed with
CurrentUser == [name |-> <<"A", "n", "n">>, phone |-> "9876543210"]

----------------------------------------------------------------------------
(* Authentication service: AuthService *)

Signup(name, dob, phone, location, password) ==
    /\ IF user_exists(usersFile, phone)
       THEN /\ last' = [op |-> "signup", result |-> "exists", phone |-> phone]
            /\ UNCHANGED usersFile
       ELSE LET new_user == User(name, dob, phone, location, password, "user")
            IN /\ usersFile' = repo_add_user(usersFile, new_user)
               /\ last' = [op |-> "signup", result |-> "created", phone |-> phone]
    /\ UNCHANGED <<pending, productsFile, ordersFile, suppliersFile, cart, now, obj, hist>>

----------------------------------------------------------------------------
(* Catalog service: ProductService *)

AddProduct(name, category, quantity, price) ==
    /\ IF product_find_by_name(productsFile, name) # 0
       THEN /\ last' = [op |-> "add_product", result |-> "duplicate", name |-> name]
            /\ UNCHANGED <<productsFile, hist>>
       ELSE LET product_id == product_get_next_id(productsFile)
                new_product == Product(product_id, name, category, quantity, price)
            IN /\ productsFile' = repo_add_product(productsFile, new_product)
               /\ hist' = Inserted(hist, "products")
               /\ last' = [op |-> "add_product", result |-> "added", name |-> name]
    /\ UNCHANGED <<pending, usersFile, ordersFile, suppliersFile, cart, now, obj>>

UpdateProduct(prod_id, choice, value) ==
    /\ LET products == LoadProducts(productsFile)
           k == product_find_by_id(productsFile, prod_id)
           product == products[k]
           done(result) == last' = [op |-> "update_product", result |-> result,
                                    prod_id |-> prod_id, choice |-> choice,
                                    value |-> value]
       IN IF products = <<>>
          THEN done("no_products") /\ UNCHANGED productsFile
          ELSE IF k = 0
          THEN done("not_found") /\ UNCHANGED productsFile
          ELSE IF choice = "1"
          THEN LET e == product_find_by_name(productsFile, value)
               IN IF e # 0 /\ products[e].id # prod_id
                  THEN done("duplicate") /\ UNCHANGED productsFile
                  ELSE /\ done("updated")
                       /\ productsFile' =
                            repo_update_product(productsFile, [product EXCEPT !.name = value]).file
          ELSE IF choice = "2"
          THEN /\ done("updated")
               /\ productsFile' =
                    repo_update_product(productsFile, [product EXCEPT !.category = value]).file
          ELSE IF choice = "3"
          THEN /\ done("updated")
               /\ productsFile' =
                    repo_update_product(productsFile, [product EXCEPT !.quantity = value]).file
          ELSE IF choice = "4"
          THEN /\ done("updated")
               /\ productsFile' =
                    repo_update_product(productsFile, [product EXCEPT !.price = value]).file
          ELSE done("invalid_choice") /\ UNCHANGED productsFile
    /\ UNCHANGED <<pending, usersFile, ordersFile, suppliersFile, cart, now, obj, hist>>

DeleteProduct(prod_id) ==
    /\ LET products == LoadProducts(productsFile)
       IN IF products = <<>>
          THEN /\ last' = [op |-> "delete_product", result |-> "no_products",
                            prod_id |-> prod_id]
               /\ UNCHANGED <<productsFile, hist>>
          ELSE IF product_find_by_id(productsFile, prod_id) # 0
          THEN /\ productsFile' = repo_delete_product(productsFile, prod_id)
               /\ hist' = Deleted(hist, "products", productsFile')
               /\ last' = [op |-> "delete_product", result |-> "deleted",
                            prod_id |-> prod_id]
          ELSE /\ last' = [op |-> "delete_product", result |-> "not_found",
                            prod_id |-> prod_id]
               /\ UNCHANGED <<productsFile, hist>>
    /\ UNCHANGED <<pending, usersFile, ordersFile, suppliersFile, cart, now, obj>>

----------------------------------------------------------------------------
(* Shopping service: ShoppingService *)

\* get_validated_quantity: asks again until validate_quantity accepts
validate_quantity(quantity) == quantity >= 0 /\ quantity <= MaxQuantityInput

AddToCart(product_id, quantity) ==
    /\ LET products == LoadProducts(productsFile)
           k == product_find_by_id(productsFile, product_id)
           product == products[k]
           done(result) == last' = [op |-> "add_to_cart", result |-> result]
       IN IF products = <<>>
          THEN done("no_products") /\ UNCHANGED cart
          ELSE IF k = 0
          THEN done("invalid_id") /\ UNCHANGED cart
          ELSE IF ~is_in_stock(product)
          THEN done("out_of_stock") /\ UNCHANGED cart
          ELSE /\ validate_quantity(quantity)
               /\ IF quantity > product.quantity
                  THEN done("not_enough") /\ UNCHANGED cart
                  ELSE /\ cart' = cart_add_item(cart, product, quantity)
                       /\ done("added")
    /\ UNCHANGED <<pending, usersFile, productsFile, ordersFile, suppliersFile, now, obj, hist>>

RemoveFromCart(product_id) ==
    /\ IF cart = <<>>
       THEN last' = [op |-> "remove_from_cart", result |-> "empty"] /\ UNCHANGED cart
       ELSE IF \E i \in 1..Len(cart) : cart[i].id = product_id
       THEN /\ cart' = cart_remove_item(cart, product_id)
            /\ last' = [op |-> "remove_from_cart", result |-> "removed"]
       ELSE last' = [op |-> "remove_from_cart", result |-> "not_in_cart"] /\ UNCHANGED cart
    /\ UNCHANGED <<pending, usersFile, productsFile, ordersFile, suppliersFile, now, obj, hist>>

\* the "Update product quantities" loop of checkout, one cart line after the other
RECURSIVE checkout_update_quantities(_, _)
checkout_update_quantities(file, items) ==
    IF items = <<>> THEN file
    ELSE LET k == product_find_by_id(file, Head(items).id)
         IN IF k = 0
            THEN checkout_update_quantities(file, Tail(items))
            ELSE LET product == reduce_stock(LoadProducts(file)[k], Head(items).qty).product
                 IN checkout_update_quantities(repo_update_product(file, product).file,
                                               Tail(items))

\* the "Add items to order" loop of checkout
RECURSIVE checkout_add_items(_, _)
checkout_add_items(order, items) ==
    IF items = <<>> THEN order
    ELSE checkout_add_items(
            add_item(order, OrderItem(Head(items).id, Head(items).name,
                                      Head(items).qty, Head(items).price)),
            Tail(items))

\* some cart line asks for more than the stored stock of its product
CartExceedsStock(file, items) ==
    \E i \in 1..Len(items) :
        LET k == product_find_by_id(file, items[i].id)
        IN k # 0 /\ items[i].qty > file[k].quantity

Checkout(confirm) ==
    /\ IF cart = <<>>
       THEN /\ last' = [op |-> "checkout", result |-> "empty", short |-> FALSE]
            /\ UNCHANGED <<productsFile, ordersFile, cart, hist>>
       ELSE LET order_id == order_get_next_id(ordersFile, now)
                order == checkout_add_items(
                            Order(order_id, CurrentUser.name, CurrentUser.phone,
                                  "Completed", now), cart)
                short == CartExceedsStock(productsFile, cart)
            IN IF Lower(confirm) # Yes
               THEN /\ last' = [op |-> "checkout", result |-> "declined", short |-> short,
                                confirm |-> confirm]
                    /\ UNCHANGED <<productsFile, ordersFile, cart, hist>>
               ELSE /\ productsFile' = checkout_update_quantities(productsFile, cart)
                    /\ ordersFile' = save_order(ordersFile, order, now)
                    /\ cart' = cart_clear(cart)
                    /\ hist' = Inserted(hist, "orders")
                    /\ last' = [op |-> "checkout", result |-> "placed", short |-> short,
                                confirm |-> confirm]
    /\ UNCHANGED <<pending, usersFile, suppliersFile, now, obj>>

----------------------------------------------------------------------------
(* Order service: OrderService *)

\* faulty variant of status_map: the menu also offers Completed
status_map_with_completed ==
    ("1" :> "Pending") @@ ("2" :> "Processing") @@ ("3" :> "Shipped")
        @@ ("4" :> "Delivered") @@ ("5" :> "Cancelled") @@ ("6" :> "Completed")

\* the menu of update_order_status
status_map ==
    ("1" :> "Pending") @@ ("2" :> "Processing") @@ ("3" :> "Shipped")
        @@ ("4" :> "Delivered") @@ ("5" :> "Cancelled")

UpdateOrderStatus(order_id, choice) ==
    /\ LET orders == LoadOrders(ordersFile, now)
           k == order_find_by_id(ordersFile, order_id, now)
           done(result, before) ==
               last' = [op |-> "update_order_status", result |-> result,
                        order_id |-> order_id, choice |-> choice, before |-> before]
       IN IF orders = <<>>
          THEN done("no_orders", "none") /\ UNCHANGED ordersFile
          ELSE IF k = 0
          THEN done("not_found", "none") /\ UNCHANGED ordersFile
          ELSE IF choice \in DOMAIN status_map
          THEN LET r == update_status(orders[k], status_map[choice])
               IN IF r.ok
                  THEN /\ ordersFile' = repo_update_order(ordersFile, r.order, now).file
                       /\ done("updated", orders[k].status)
                  ELSE done("failed", orders[k].status) /\ UNCHANGED ordersFile
          ELSE done("invalid_choice", orders[k].status) /\ UNCHANGED ordersFile
    /\ UNCHANGED <<pending, usersFile, productsFile, suppliersFile, cart, now, obj, hist>>

DeleteOrder(order_id, confirm) ==
    /\ LET orders == LoadOrders(ordersFile, now)
           done(result) == last' = [op |-> "delete_order", result |-> result,
                                    order_id |-> order_id]
       IN IF orders = <<>>
          THEN done("no_orders") /\ UNCHANGED <<ordersFile, hist>>
          ELSE IF order_find_by_id(ordersFile, order_id, now) = 0
          THEN done("not_found") /\ UNCHANGED <<ordersFile, hist>>
          ELSE IF Lower(confirm) = Yes
          THEN /\ ordersFile' = repo_delete_order(ordersFile, order_id, now)
               /\ hist' = Deleted(hist, "orders", ordersFile')
               /\ done("deleted")
          ELSE done("cancelled") /\ UNCHANGED <<ordersFile, hist>>
    /\ UNCHANGED <<pending, usersFile, productsFile, suppliersFile, cart, now, obj>>

CalculateTotalRevenue ==
    /\ LET orders == LoadOrders(ordersFile, now)
           completed_orders == SelectSeq(orders, is_completed)
           total_revenue == SumSeq([i \in 1..Len(completed_orders) |->
                                        calculate_total(completed_orders[i])])
           total_orders == Len(completed_orders)
       IN IF orders = <<>>
          THEN last' = [op |-> "calculate_total_revenue", printed |-> FALSE]
          ELSE last' = [op |-> "calculate_total_revenue", printed |-> TRUE,
                        total_orders |-> total_orders, total_revenue |-> total_revenue]
    /\ UNCHANGED <<pending, usersFile, productsFile, ordersFile, suppliersFile, cart, now, obj, hist>>

----------------------------------------------------------------------------
(* Inventory service: InventoryService *)

RestockProduct(product_id, quantity) ==
    /\ LET products == LoadProducts(productsFile)
           k == product_find_by_id(productsFile, product_id)
           done(result) == last' = [op |-> "restock_product", result |-> result]
       IN IF products = <<>>
          THEN done("no_products") /\ UNCHANGED productsFile
          ELSE IF k = 0
          THEN done("not_found") /\ UNCHANGED productsFile
          ELSE IF quantity <= 0
          THEN done("invalid_quantity") /\ UNCHANGED productsFile
          ELSE /\ productsFile' =
                    repo_update_product(productsFile, restock(products[k], quantity).product).file
               /\ done("restocked")
    /\ UNCHANGED <<pending, usersFile, ordersFile, suppliersFile, cart, now, obj, hist>>

\* the input loop of bulk_restock over the low-stock products loaded at its start
RECURSIVE bulk_restock_loop(_, _, _)
bulk_restock_loop(file, low_stock, qtys) ==
    IF low_stock = <<>> THEN file
    ELSE IF Head(qtys) > 0
         THEN bulk_restock_loop(
                 repo_update_product(file, restock(Head(low_stock), Head(qtys)).product).file,
                 Tail(low_stock), Tail(qtys))
         ELSE bulk_restock_loop(file, Tail(low_stock), Tail(qtys))

BulkRestock(qtys) ==
    /\ LET products == LoadProducts(productsFile)
           low_stock == SelectSeq(products, LAMBDA p : is_low_stock(p, LowStockThreshold))
           done(result) == last' = [op |-> "bulk_restock", result |-> result]
       IN IF products = <<>>
          THEN done("no_products") /\ UNCHANGED productsFile
          ELSE IF low_stock = <<>>
          THEN done("none_low") /\ UNCHANGED productsFile
          ELSE /\ Len(qtys) = Len(low_stock)
               /\ productsFile' = bulk_restock_loop(productsFile, low_stock, qtys)
               /\ done("completed")
    /\ UNCHANGED <<pending, usersFile, ordersFile, suppliersFile, cart, now, obj, hist>>

----------------------------------------------------------------------------
(* Supplier service: SupplierService *)

AddSupplier(name, phone) ==
    /\ IF supplier_find_by_phone(suppliersFile, phone, now) # 0
       THEN /\ last' = [op |-> "add_supplier", result |-> "duplicate", phone |-> phone]
            /\ UNCHANGED <<suppliersFile, hist>>
       ELSE LET supplier_id == supplier_get_next_id(suppliersFile, now)
                new_supplier == Supplier(supplier_id, name, phone, now)
            IN /\ suppliersFile' = repo_add_supplier(suppliersFile, new_supplier, now)
               /\ hist' = Inserted(hist, "suppliers")
               /\ last' = [op |-> "add_supplier", result |-> "added", phone |-> phone]
    /\ UNCHANGED <<pending, usersFile, productsFile, ordersFile, cart, now, obj>>

UpdateSupplier(supplier_id, choice, value) ==
    /\ LET suppliers == LoadSuppliers(suppliersFile, now)
           k == supplier_find_by_id(suppliersFile, supplier_id, now)
           supplier == suppliers[k]
           done(result) == last' = [op |-> "update_supplier", result |-> result,
                                    supplier_id |-> supplier_id, choice |-> choice,
                                    value |-> value]
           write(updated) ==
               /\ suppliersFile' = repo_update_supplier(suppliersFile, updated, now).file
               /\ done("updated")
       IN IF suppliers = <<>>
          THEN done("no_suppliers") /\ UNCHANGED suppliersFile
          ELSE IF k = 0
          THEN done("not_found") /\ UNCHANGED suppliersFile
          ELSE IF choice = "1"
          THEN write([supplier EXCEPT !.name = value])
          ELSE IF choice \in {"2", "4", "5", "6"}
          THEN write(supplier)
          ELSE IF choice = "3"
          THEN write([supplier EXCEPT !.phone = value])
          ELSE IF choice = "7"
          THEN LET r == update_rating(supplier, value)
               IN IF r.ok
                  THEN write(r.supplier)
                  ELSE done("invalid_rating") /\ UNCHANGED suppliersFile
          ELSE IF choice = "8"
          THEN IF value \in {"Active", "Inactive"}
               THEN write([supplier EXCEPT !.status = value])
               ELSE done("invalid_status") /\ UNCHANGED suppliersFile
          ELSE done("invalid_choice") /\ UNCHANGED suppliersFile
    /\ UNCHANGED <<pending, usersFile, productsFile, ordersFile, cart, now, obj, hist>>

DeleteSupplier(supplier_id, confirm) ==
    /\ LET suppliers == LoadSuppliers(suppliersFile, now)
           done(result) == last' = [op |-> "delete_supplier", result |-> result,
                                    supplier_id |-> supplier_id]
       IN IF suppliers = <<>>
          THEN done("no_suppliers") /\ UNCHANGED <<suppliersFile, hist>>
          ELSE IF supplier_find_by_id(suppliersFile, supplier_id, now) = 0
          THEN done("not_found") /\ UNCHANGED <<suppliersFile, hist>>
          ELSE IF Lower(confirm) = Yes
          THEN /\ suppliersFile' = repo_delete_supplier(suppliersFile, supplier_id, now)
               /\ hist' = Deleted(hist, "suppliers", suppliersFile')
               /\ done("deleted")
          ELSE done("cancelled") /\ UNCHANGED <<suppliersFile, hist>>
    /\ UNCHANGED <<pending, usersFile, productsFile, ordersFile, cart, now, obj>>

RecordPurchaseOrder(supplier_id, product_id, quantity, price_per_unit, confirm) ==
    /\ LET suppliers == LoadSuppliers(suppliersFile, now)
           products == LoadProducts(productsFile)
           ks == supplier_find_by_id(suppliersFile, supplier_id, now)
           kp == product_find_by_id(productsFile, product_id)
           total_cost == quantity * price_per_unit
           done(result) == last' = [op |-> "record_purchase_order", result |-> result]
       IN IF suppliers = <<>>
          THEN done("no_suppliers") /\ UNCHANGED <<productsFile, suppliersFile>>
          ELSE IF products = <<>>
          THEN done("no_products") /\ UNCHANGED <<productsFile, suppliersFile>>
          ELSE IF ks = 0
          THEN done("supplier_not_found") /\ UNCHANGED <<productsFile, suppliersFile>>
          ELSE IF kp = 0
          THEN done("product_not_found") /\ UNCHANGED <<productsFile, suppliersFile>>
          ELSE IF quantity <= 0 \/ price_per_unit <= 0
          THEN done("invalid") /\ UNCHANGED <<productsFile, suppliersFile>>
          ELSE IF Lower(confirm) = Yes
          THEN /\ productsFile' =
                    repo_update_product(productsFile, restock(products[kp], quantity).product).file
               /\ suppliersFile' =
                    repo_update_supplier(suppliersFile,
                                         record_purchase(suppliers[ks], total_cost), now).file
               /\ done("recorded")
          ELSE done("cancelled") /\ UNCHANGED <<productsFile, suppliersFile>>
    /\ UNCHANGED <<pending, usersFile, ordersFile, cart, now, obj, hist>>

(* record_purchase_order in two steps, for runs in which another session   *)
(* of the program writes the files while this one waits for its operator:  *)
(* up to the confirmation prompt, and from the answer on.                  *)

PurchaseOrderPrompt(supplier_id, product_id, quantity, price_per_unit) ==
    /\ pending = NoPending
    /\ LET suppliers == LoadSuppliers(suppliersFile, now)
           products == LoadProducts(productsFile)
           ks == supplier_find_by_id(suppliersFile, supplier_id, now)
           kp == product_find_by_id(productsFile, product_id)
           done(result) == /\ last' = [op |-> "record_purchase_order", result |-> result,
                                        quantity |-> quantity,
                                        price_per_unit |-> price_per_unit]
                           /\ UNCHANGED pending
       IN IF suppliers = <<>>
          THEN done("no_suppliers")
          ELSE IF products = <<>>
          THEN done("no_products")
          ELSE IF ks = 0
          THEN done("supplier_not_found")
          ELSE IF kp = 0
          THEN done("product_not_found")
          ELSE IF quantity <= 0 \/ price_per_unit <= 0
          THEN done("invalid")
          ELSE /\ pending' = [op |-> "record_purchase_order",
                              supplier |-> suppliers[ks], product |-> products[kp],
                              quantity |-> quantity,
                              price_per_unit |-> price_per_unit,
                              total_cost |-> quantity * price_per_unit]
               /\ last' = [op |-> "record_purchase_order", result |-> "prompt",
                           quantity |-> quantity, price_per_unit |-> price_per_unit]
    /\ UNCHANGED <<usersFile, productsFile, ordersFile, suppliersFile, cart, now, obj, hist>>

PurchaseOrderConfirm(confirm) ==
    /\ pending.op = "record_purchase_order"
    /\ pending' = NoPending
    /\ IF Lower(confirm) = Yes
       THEN LET restocked == restock(pending.product, pending.quantity)
                written == repo_update_product(productsFile, restocked.product)
                supplier == record_purchase(pending.supplier, pending.total_cost)
            IN /\ productsFile' = written.file
               /\ suppliersFile' = repo_update_supplier(suppliersFile, supplier, now).file
               /\ last' = [op |-> "record_purchase_order", result |-> "recorded",
                           restocked |-> restocked.ok /\ written.ok,
                           supplier_id |-> pending.supplier.id]
       ELSE /\ last' = [op |-> "record_purchase_order", result |-> "cancelled"]
            /\ UNCHANGED <<productsFile, suppliersFile>>
    /\ UNCHANGED <<usersFile, ordersFile, cart, now, obj, hist>>

----------------------------------------------------------------------------
(* The clock, and methods called on one entity object directly *)

Tick ==
    /\ now < MaxTime
    /\ now' = now + 1
    /\ last' = [op |-> "tick"]
    /\ UNCHANGED <<pending, usersFile, productsFile, ordersFile, suppliersFile, cart, obj, hist>>

ReduceStockCall(quantity) ==
    /\ LET r == reduce_stock(obj, quantity)
       IN /\ obj' = r.product
          /\ last' = [op |-> "reduce_stock", before |-> obj.quantity,
                      quantity |-> quantity, ok |-> r.ok]
    /\ UNCHANGED <<pending, usersFile, productsFile, ordersFile, suppliersFile, cart, now, hist>>

\* Order.update_status called on the order find_by_id returns, which is not saved
UpdateStatusCall(order_id, new_status) ==
    /\ LET orders == LoadOrders(ordersFile, now)
           k == order_find_by_id(ordersFile, order_id, now)
           r == update_status(orders[k], new_status)
       IN /\ k # 0
          /\ last' = [op |-> "update_status", before |-> orders[k],
                      new_status |-> new_status, ok |-> r.ok, after |-> r.order]
    /\ UNCHANGED <<pending, usersFile, productsFile, ordersFile, suppliersFile, cart, now, obj, hist>>

\* Order.from_dict(order.to_dict()), the stored total_amount overwritten with any value
OrderRoundTrip(total_amount) ==
    /\ obj' = OrderFromDict([OrderToDict(obj) EXCEPT !.total_amount = total_amount], now)
    /\ last' = [op |-> "round_trip", before |-> obj,
                tampered |-> (total_amount # calculate_total(obj))]
    /\ UNCHANGED <<pending, usersFile, productsFile, ordersFile, suppliersFile, cart, now, hist>>

----------------------------------------------------------------------------
(* Initial state: initialize_json_files writes an empty array to the       *)
(* product, order and supplier files; a new session has an empty cart.     *)

NoObject == [none |-> TRUE]

NoHist == [repo |-> "none", inserted |-> 0, deleted |-> FALSE]

EmptyStore ==
    /\ productsFile = <<>>
    /\ ordersFile = <<>>
    /\ suppliersFile = <<>>
    /\ usersFile = BootstrapUsers
    /\ pending = NoPending
    /\ cart = <<>>
    /\ now = 0
    /\ last = [op |-> "start"]

Init == EmptyStore /\ obj = NoObject /\ hist = NoHist

(* Inputs *)

Milk == <<"M", "i", "l", "k">>
MILK == <<"M", "I", "L", "K">>
milk == <<"m", "i", "l", "k">>
Rice == <<"R", "i", "c", "e">>
Salt == <<"S", "a", "l", "t">>
Dairy == <<"D", "a", "i", "r", "y">>
Food == <<"F", "o", "o", "d">>
Acme == <<"A", "c", "m", "e">>
No == <<"n", "o">>
YES == <<"Y", "E", "S">>

\* the bounds on the stored collections, as conditions on a step's next state
ProductsCap(maxLen, maxQty) ==
    /\ Len(productsFile') <= maxLen
    /\ \A i \in 1..Len(productsFile') :
          /\ productsFile'[i].id <= maxLen + 1
          /\ productsFile'[i].quantity <= maxQty

CartCap(maxQty) == \A i \in 1..Len(cart') : cart'[i].qty <= maxQty

OrdersCap(maxLen, maxId) ==
    /\ Len(ordersFile') <= maxLen
    /\ \A i \in 1..Len(ordersFile') : ordersFile'[i].order_id <= maxId

SuppliersCap(maxLen, maxPurchases) ==
    /\ Len(suppliersFile') <= maxLen
    /\ \A i \in 1..Len(suppliersFile') :
          /\ suppliersFile'[i].id <= maxLen + 1
          /\ suppliersFile'[i].total_orders <= maxPurchases

----------------------------------------------------------------------------
(* Spec: the store driven by the catalog, inventory, supplier and shopping  *)
(* operations that write product quantities.                               *)

ShopProductIds == 1..ShopMaxProducts

ShopCap == ProductsCap(ShopMaxProducts, MaxQty)

ShopAddProduct ==
    \E name \in {Milk, Rice} : AddProduct(name, Dairy, 1, 2) /\ ShopCap

ShopUpdateProduct ==
    \E prod_id \in ShopProductIds : UpdateProduct(prod_id, "3", 0 - 1) /\ ShopCap

ShopRestockProduct ==
    \E product_id \in ShopProductIds : RestockProduct(product_id, 1) /\ ShopCap

ShopBulkRestock ==
    \E qtys \in UNION {[1..n -> {0, 1}] : n \in 0..ShopMaxProducts} :
        BulkRestock(qtys) /\ ShopCap

ShopAddSupplier ==
    AddSupplier(Acme, "9000000001") /\ SuppliersCap(ShopMaxSuppliers, ShopMaxPurchases)

ShopRecordPurchaseOrder ==
    \E product_id \in ShopProductIds :
        /\ RecordPurchaseOrder(1, product_id, 1, 3, Yes)
        /\ ShopCap
        /\ SuppliersCap(ShopMaxSuppliers, ShopMaxPurchases)

ShopAddToCart ==
    \E product_id \in ShopProductIds : AddToCart(product_id, 1) /\ CartCap(MaxQty)

ShopRemoveFromCart == \E product_id \in ShopProductIds : RemoveFromCart(product_id)

ShopCheckout == \E confirm \in {Yes, No} : Checkout(confirm) /\ OrdersCap(ShopMaxOrders, ShopMaxOrders + 1)

Next ==
    \/ ShopAddProduct
    \/ ShopUpdateProduct
    \/ ShopRestockProduct
    \/ ShopBulkRestock
    \/ ShopAddSupplier
    \/ ShopRecordPurchaseOrder
    \/ ShopAddToCart
    \/ ShopRemoveFromCart
    \/ ShopCheckout

Spec == Init /\ [][Next]_vars

----------------------------------------------------------------------------
(* C1: checkout atomicity.  A confirmed checkout of a cart in which some    *)
(* line asks for more than the stored stock of its product leaves every    *)
(* stored product quantity unchanged and adds no order record.             *)
C1_CheckoutAtomicity ==
    [][(/\ last'.op = "checkout"
        /\ last'.result \notin {"empty", "declined"}
        /\ last'.short
        /\ \A i \in 1..Len(productsFile) : productsFile[i].quantity >= 0)
       => (/\ Len(productsFile') = Len(productsFile)
           /\ \A i \in 1..Len(productsFile) :
                 productsFile'[i].quantity = productsFile[i].quantity
           /\ ordersFile' = ordersFile)]_vars

(* C2: stock non-negativity.  In every state reachable by the product-      *)
(* mutating operations every stored product has quantity >= 0.             *)
C2_StockNonNegative ==
    \A i \in 1..Len(productsFile) : productsFile[i].quantity >= 0

----------------------------------------------------------------------------
(* SpecReduceStock: Product.reduce_stock called on one product, for every   *)
(* stored quantity and every requested amount of the ranges below.         *)

UnitQuantities == (0 - 2)..MaxUnitQty

InitReduceStock ==
    /\ EmptyStore
    /\ hist = NoHist
    /\ obj \in {Product(1, Milk, Dairy, Q, 2) : Q \in UnitQuantities}

NextReduceStock ==
    \E quantity \in (0 - 2)..(MaxUnitQty + 2) :
        ReduceStockCall(quantity) /\ obj'.quantity \in UnitQuantities

SpecReduceStock == InitReduceStock /\ [][NextReduceStock]_vars

(* C3: reduce_stock(q) on a product of quantity Q returns success and sets  *)
(* the quantity to Q-q if and only if q <= Q; otherwise it returns failure *)
(* and the quantity stays Q.                                               *)
C3_ReduceStock ==
    last.op = "reduce_stock" =>
        /\ last.ok <=> (last.quantity <= last.before)
        /\ last.ok => obj.quantity = last.before - last.quantity
        /\ ~last.ok => obj.quantity = last.before

\* the boundary: the whole stock of a stocked product is taken
C3_Witness ==
    /\ last.op = "reduce_stock"
    /\ last.before > 0
    /\ last.quantity = last.before
    /\ last.ok
    /\ obj.quantity = 0

----------------------------------------------------------------------------
(* SpecOrderEntity: one Order object, serialized with to_dict and rebuilt   *)
(* with from_dict while the clock runs.                                    *)

UnitItems ==
    {OrderItem(product_id, IF product_id = 1 THEN Milk ELSE Rice, quantity, price) :
        product_id \in {1, 2}, quantity \in {1, 2}, price \in {2, 5}}

UnitOrders ==
    {[Order(1, CurrentUser.name, CurrentUser.phone, status, t) EXCEPT !.items = items] :
        status \in Range(ValidStatuses), t \in 0..MaxTime,
        items \in UNION {[1..n -> UnitItems] : n \in 0..MaxItems}}

InitOrderEntity ==
    /\ EmptyStore
    /\ hist = NoHist
    /\ obj \in UnitOrders

EntityRoundTrip ==
    \E total_amount \in {calculate_total(obj), calculate_total(obj) + 1, 0} :
        OrderRoundTrip(total_amount)

NextOrderEntity ==
    \/ Tick
    \/ EntityRoundTrip

SpecOrderEntity == InitOrderEntity /\ [][NextOrderEntity]_vars

\* the sum of quantity * price over the items
RECURSIVE ItemsValue(_, _)
ItemsValue(items, n) ==
    IF n = 0 THEN 0
    ELSE ItemsValue(items, n - 1) + items[n].quantity * items[n].price

(* C5: order total invariant.  calculate_total() is the sum over the items  *)
(* of quantity * price, and Order.from_dict(order.to_dict()) has the same  *)
(* total, items, status, order_date and customer fields; a stored          *)
(* total_amount that disagrees with the items is ignored.                  *)
C5_OrderTotalRoundTrip ==
    /\ calculate_total(obj) = ItemsValue(obj.items, Len(obj.items))
    /\ last.op = "round_trip" =>
          /\ obj.items = last.before.items
          /\ obj.status = last.before.status
          /\ obj.order_date = last.before.order_date
          /\ obj.customer_name = last.before.customer_name
          /\ obj.customer_phone = last.before.customer_phone
          /\ obj.order_id = last.before.order_id
          /\ calculate_total(obj) = ItemsValue(last.before.items, Len(last.before.items))

\* a two-item order created earlier, reloaded from a mapping with a wrong total_amount
C5_Witness ==
    /\ last.op = "round_trip"
    /\ last.tampered
    /\ Len(obj.items) = 2
    /\ obj.items[1].price # obj.items[2].price
    /\ obj.status = "Shipped"
    /\ obj.order_date < now

----------------------------------------------------------------------------
(* SpecRevenue: calculate_total_revenue over an order file holding up to    *)
(* RevMaxOrders orders of any status; order i has one line of 1 or 2 units  *)
(* at price 100 * i.                                                       *)

RevOrder(i, status, quantity) ==
    add_item(Order(i, CurrentUser.name, CurrentUser.phone, status, 0),
             OrderItem(1, Milk, quantity, 100 * i))

InitRevenue ==
    /\ productsFile = <<>>
    /\ suppliersFile = <<>>
    /\ usersFile = BootstrapUsers
    /\ pending = NoPending
    /\ cart = <<>>
    /\ now = 0
    /\ last = [op |-> "start"]
    /\ hist = NoHist
    /\ obj = NoObject
    /\ \E n \in 0..RevMaxOrders :
         \E statuses \in [1..n -> Range(ValidStatuses)], quantities \in [1..n -> {1, 2}] :
            ordersFile = SaveOrders([i \in 1..n |-> RevOrder(i, statuses[i], quantities[i])])

NextRevenue == CalculateTotalRevenue

SpecRevenue == InitRevenue /\ [][NextRevenue]_vars

\* the stored orders that count as revenue, and their value
RevenueOrders == {i \in 1..Len(ordersFile) : ordersFile[i].status \in {"Completed", "Delivered"}}

RECURSIVE RevenueValue(_)
RevenueValue(n) ==
    IF n = 0 THEN 0
    ELSE RevenueValue(n - 1)
            + (IF n \in RevenueOrders
               THEN ItemsValue(ordersFile[n].items, Len(ordersFile[n].items))
               ELSE 0)

(* C7: revenue.  calculate_total_revenue reports the sum of                 *)
(* calculate_total() over exactly the stored orders whose status is        *)
(* Completed or Delivered, and the count of those orders; orders that are  *)
(* Pending, Processing, Shipped or Cancelled contribute nothing.           *)
C7_Revenue ==
    (last.op = "calculate_total_revenue" /\ ordersFile # <<>>) =>
        /\ last.printed
        /\ last.total_revenue = RevenueValue(Len(ordersFile))
        /\ last.total_orders = Cardinality(RevenueOrders)

\* totals 100/200/300 with statuses Completed/Pending/Delivered: 400 over 2 orders
C7_Witness ==
    /\ last.op = "calculate_total_revenue"
    /\ Len(ordersFile) = 3
    /\ [i \in 1..3 |-> ordersFile[i].total_amount] = <<100, 200, 300>>
    /\ [i \in 1..3 |-> ordersFile[i].status] = <<"Completed", "Pending", "Delivered">>
    /\ last.total_revenue = 400
    /\ last.total_orders = 2

----------------------------------------------------------------------------
(* SpecCatalog: ProductService.add_product, update_product and             *)
(* delete_product with names that differ only in case.                     *)

CatalogIds == 1..(MaxProducts + 1)

CatalogCap == ProductsCap(MaxProducts, MaxQty)

CatalogAddProduct ==
    \E name \in {Milk, MILK, Rice} : AddProduct(name, Dairy, 1, 2) /\ CatalogCap

CatalogUpdateProduct ==
    \E prod_id \in CatalogIds :
        \/ \E new_name \in {milk, MILK, Rice, <<>>} :
              UpdateProduct(prod_id, "1", new_name) /\ CatalogCap
        \/ UpdateProduct(prod_id, "2", Food) /\ CatalogCap
        \/ UpdateProduct(prod_id, "9", <<>>) /\ CatalogCap

CatalogDeleteProduct == \E prod_id \in CatalogIds : DeleteProduct(prod_id) /\ CatalogCap

NextCatalog == CatalogAddProduct \/ CatalogUpdateProduct \/ CatalogDeleteProduct

SpecCatalog == Init /\ [][NextCatalog]_vars

\* the stored products whose name equals name ignoring case
SameName(file, name) == {i \in 1..Len(file) : Lower(file[i].name) = Lower(name)}

(* C6: product-name uniqueness.  After any sequence of add_product,        *)
(* update_product and delete_product no two stored products have names     *)
(* equal ignoring case; an add of a name already stored in some case, or a *)
(* rename of a stored product to the name of a product with a different    *)
(* ID, is reported as a duplicate and leaves the stored collection as it   *)
(* was.                                                                    *)
C6_NameUniqueness ==
    /\ [](\A i, j \in 1..Len(productsFile) :
            Lower(productsFile[i].name) = Lower(productsFile[j].name) => i = j)
    /\ [][(/\ last'.op = "add_product"
           /\ SameName(productsFile, last'.name) # {})
          => (last'.result = "duplicate" /\ productsFile' = productsFile)]_vars
    /\ [][(/\ last'.op = "update_product"
           /\ last'.choice = "1"
           /\ \E j \in 1..Len(productsFile) : productsFile[j].id = last'.prod_id
           /\ \E i \in SameName(productsFile, last'.value) :
                 productsFile[i].id # last'.prod_id)
          => (last'.result = "duplicate" /\ productsFile' = productsFile)]_vars

\* "MILK" was offered while "Milk" is stored, and was rejected
C6_Witness ==
    /\ last.op = "add_product"
    /\ last.result = "duplicate"
    /\ last.name = MILK
    /\ \E i \in 1..Len(productsFile) : productsFile[i].name = Milk

----------------------------------------------------------------------------
(* SpecIds: insertions into and deletions from one repository, chosen at   *)
(* the start: products (add_product, delete_product), orders (checkout,    *)
(* delete_order) or suppliers (add_supplier, delete_supplier).             *)

InitIds ==
    /\ EmptyStore
    /\ obj = NoObject
    /\ \E repo \in {"products", "orders", "suppliers"} :
          hist = [repo |-> repo, inserted |-> 0, deleted |-> FALSE]

IdsAddProduct ==
    /\ hist.repo = "products"
    /\ \E name \in {Milk, Rice, Salt} : AddProduct(name, Food, 1, 2)
    /\ ProductsCap(MaxProducts, MaxQty)

IdsDeleteProduct ==
    /\ hist.repo = "products"
    /\ \E prod_id \in 1..(MaxProducts + 1) : DeleteProduct(prod_id)

IdsStock ==
    /\ hist.repo = "orders"
    /\ \/ AddProduct(Milk, Dairy, 1, 2)
       \/ RestockProduct(1, 1)
    /\ ProductsCap(1, 1)

IdsAddToCart ==
    /\ hist.repo = "orders"
    /\ AddToCart(1, 1)
    /\ CartCap(1)

IdsCheckout ==
    /\ hist.repo = "orders"
    /\ Checkout(Yes)
    /\ OrdersCap(MaxOrders, MaxOrders + 1)

IdsDeleteOrder ==
    /\ hist.repo = "orders"
    /\ \E order_id \in 1..(MaxOrders + 1) : DeleteOrder(order_id, Yes)

IdsAddSupplier ==
    /\ hist.repo = "suppliers"
    /\ \E phone \in {"9000000001", "9000000002", "9000000003"} : AddSupplier(Acme, phone)
    /\ SuppliersCap(MaxSuppliers, 0)

IdsDeleteSupplier ==
    /\ hist.repo = "suppliers"
    /\ \E supplier_id \in 1..(MaxSuppliers + 1) : DeleteSupplier(supplier_id, Yes)

NextIds ==
    \/ IdsAddProduct \/ IdsDeleteProduct
    \/ IdsStock \/ IdsAddToCart \/ IdsCheckout \/ IdsDeleteOrder
    \/ IdsAddSupplier \/ IdsDeleteSupplier

SpecIds == InitIds /\ [][NextIds]_vars

\* what get_next_id must return for a collection with these stored IDs
NextIdFor(next_id, ids) ==
    /\ ids = {} => next_id = 1
    /\ ids # {} => /\ next_id = MaxOf(ids) + 1
                   /\ \A id \in ids : next_id > id
    /\ ~hist.deleted => next_id = hist.inserted + 1

(* C4: ID allocation.  For the product, order and supplier repositories    *)
(* get_next_id returns 1 on an empty collection and the greatest stored ID *)
(* plus one otherwise, whatever was inserted or deleted before: N + 1      *)
(* after N insertions from empty without a deletion, and after the         *)
(* deletion of the entity with the greatest ID a value greater than every  *)
(* ID still stored.                                                        *)
C4_NextId ==
    /\ hist.repo = "products" =>
          NextIdFor(product_get_next_id(productsFile),
                    {productsFile[i].id : i \in 1..Len(productsFile)})
    /\ hist.repo = "orders" =>
          NextIdFor(order_get_next_id(ordersFile, now),
                    {ordersFile[i].order_id : i \in 1..Len(ordersFile)})
    /\ hist.repo = "suppliers" =>
          NextIdFor(supplier_get_next_id(suppliersFile, now),
                    {suppliersFile[i].id : i \in 1..Len(suppliersFile)})

\* the product with the greatest ID was just deleted and another remains
C4_Witness ==
    /\ hist.repo = "products"
    /\ last.op = "delete_product"
    /\ last.result = "deleted"
    /\ productsFile # <<>>
    /\ \A i \in 1..Len(productsFile) : productsFile[i].id < last.prod_id
    /\ product_get_next_id(productsFile) = last.prod_id

\* no two entities of the collection have the same value under this key
Distinct(file, key) ==
    \A i, j \in 1..Len(file) : file[i][key] = file[j][key] => i = j

(* C30: ID uniqueness.  In every state reached by one process through      *)
(* add_product / delete_product, checkout, delete_order and add_supplier / *)
(* delete_supplier, the IDs within the product collection, within the      *)
(* order collection and within the supplier collection are pairwise        *)
(* distinct.                                                               *)
C30_IdUniqueness ==
    /\ Distinct(productsFile, "id")
    /\ Distinct(ordersFile, "order_id")
    /\ Distinct(suppliersFile, "id")

\* supplier 1 was deleted and a third supplier added: the stored IDs are 2 and 3
C30_Witness ==
    /\ hist.repo = "suppliers"
    /\ last.op = "add_supplier"
    /\ last.result = "added"
    /\ Len(suppliersFile) = 2
    /\ suppliersFile[1].id = 2
    /\ suppliersFile[2].id = 3

----------------------------------------------------------------------------
(* SpecOrders: orders created by checkout and administered with            *)
(* update_order_status and delete_order.                                   *)

OrderIds == 1..MaxOrders

OrdersStock ==
    /\ \/ AddProduct(Milk, Dairy, 1, 2)
       \/ RestockProduct(1, 1)
    /\ ProductsCap(1, 1)

OrdersAddToCart == AddToCart(1, 1) /\ CartCap(1)

OrdersCheckout == \E confirm \in {YES, No} : Checkout(confirm) /\ OrdersCap(MaxOrders, MaxOrders)

OrdersUpdateOrderStatus ==
    \E order_id \in OrderIds, choice \in {"1", "2", "3", "4", "5", "6"} :
        UpdateOrderStatus(order_id, choice)

OrdersDeleteOrder ==
    \E order_id \in OrderIds, confirm \in {Yes, No} : DeleteOrder(order_id, confirm)

OrdersUpdateStatusCall ==
    \E order_id \in OrderIds, new_status \in {"Shipped", "Refunded", "completed"} :
        UpdateStatusCall(order_id, new_status)

NextOrders ==
    \/ OrdersStock \/ OrdersAddToCart \/ OrdersCheckout
    \/ OrdersUpdateOrderStatus \/ OrdersDeleteOrder \/ OrdersUpdateStatusCall

SpecOrders == Init /\ [][NextOrders]_vars

\* the status stored for order_id in file, "gone" when no such order is stored
StoredStatus(file, order_id) ==
    LET S == {i \in 1..Len(file) : file[i].order_id = order_id}
    IN IF S = {} THEN "gone" ELSE file[MinOf(S)].status

StoredIds(file) == {file[i].order_id : i \in 1..Len(file)}

(* C8: order status invariant.  In every state reached by checkout,        *)
(* update_order_status and delete_order every stored order's status is one *)
(* of Pending, Processing, Shipped, Delivered, Cancelled, Completed;       *)
(* Order.update_status with a value outside this set returns failure and   *)
(* leaves the order as it was; a choice outside the menu of                *)
(* update_order_status leaves the stored orders unchanged.                 *)
C8_OrderStatus ==
    /\ [](\A i \in 1..Len(ordersFile) : ordersFile[i].status \in Range(ValidStatuses))
    /\ []((last.op = "update_status" /\ last.new_status \notin Range(ValidStatuses))
            => (~last.ok /\ last.after = last.before))
    /\ [][(/\ last'.op = "update_order_status"
           /\ last'.choice \notin {"1", "2", "3", "4", "5"})
          => ordersFile' = ordersFile]_vars

\* update_status was called with "Refunded" on a stored order and refused
C8_Witness ==
    /\ last.op = "update_status"
    /\ last.new_status = "Refunded"
    /\ ~last.ok
    /\ last.after.status = last.before.status

(* C9: no execution of update_order_status changes a stored order's status *)
(* from a value other than Completed to Completed.                         *)
C9_NoUpdateToCompleted ==
    [][last'.op = "update_order_status"
       => \A id \in StoredIds(ordersFile) :
             StoredStatus(ordersFile, id) # "Completed"
                => StoredStatus(ordersFile', id) # "Completed"]_vars

\* update_order_status has just changed the status of an order that was not Completed
C9_Witness ==
    /\ last.op = "update_order_status"
    /\ last.result = "updated"
    /\ last.before \notin {"Completed", "none"}
    /\ StoredStatus(ordersFile, last.order_id) = status_map[last.choice]

(* C10 as stated: once a stored order has status Completed, no execution   *)
(* of update_order_status changes its status.                              *)
C10_CompletedTerminal ==
    [][last'.op = "update_order_status"
       => \A id \in StoredIds(ordersFile) :
             StoredStatus(ordersFile, id) = "Completed"
                => StoredStatus(ordersFile', id) = "Completed"]_vars

(* C10 as amended: Completed is not terminal.  update_order_status changes *)
(* the status of a stored Completed order exactly when that order is       *)
(* selected by its ID with a menu choice 1 to 5, and then to the status    *)
(* chosen; in every other execution the order stays Completed.  No         *)
(* execution of update_order_status removes an order: a stored order       *)
(* leaves the collection only through delete_order.                        *)
C10_CompletedChangedOnlyByChoice ==
    /\ [][last'.op = "update_order_status"
          => \A id \in StoredIds(ordersFile) :
                StoredStatus(ordersFile, id) = "Completed"
                   => StoredStatus(ordersFile', id) =
                         (IF id = last'.order_id /\ last'.choice \in {"1", "2", "3", "4", "5"}
                          THEN status_map[last'.choice]
                          ELSE "Completed")]_vars
    /\ [][(\E id \in StoredIds(ordersFile) : id \notin StoredIds(ordersFile'))
          => last'.op = "delete_order"]_vars

\* a Completed order was selected with choice 1 and is now Pending, next to another order
C10_Witness ==
    /\ last.op = "update_order_status"
    /\ last.result = "updated"
    /\ last.before = "Completed"
    /\ last.choice = "1"
    /\ StoredStatus(ordersFile, last.order_id) = "Pending"
    /\ Len(ordersFile) = 2

(* C11: orders are created whole.  In every reachable state each stored    *)
(* order has at least one item, and a checkout that places an order        *)
(* appends exactly one order, with status Completed and with its items,    *)
(* to the stored orders.                                                   *)
C11_OrderCreatedWhole ==
    /\ [](\A i \in 1..Len(ordersFile) : Len(ordersFile[i].items) >= 1)
    /\ [][(last'.op = "checkout" /\ last'.result = "placed")
          => /\ Len(ordersFile') = Len(ordersFile) + 1
             /\ SubSeq(ordersFile', 1, Len(ordersFile)) = ordersFile
             /\ ordersFile'[Len(ordersFile')].status = "Completed"
             /\ Len(ordersFile'[Len(ordersFile')].items) = Len(cart)
             /\ Len(cart) >= 1]_vars

\* a checkout has just placed an order next to an order whose status was changed
C11_Witness ==
    /\ last.op = "checkout"
    /\ last.result = "placed"
    /\ Len(ordersFile) = 2
    /\ ordersFile[1].status = "Shipped"
    /\ ordersFile[2].status = "Completed"
    /\ Len(ordersFile[2].items) = 1

----------------------------------------------------------------------------
(* SpecRatings: suppliers added and then updated through the rating and    *)
(* status choices of update_supplier.  Ratings are in tenths.              *)

RatingSupplierIds == 1..(MaxSuppliers + 1)

RatingsAddSupplier ==
    /\ \E phone \in {"9000000001", "9000000002"} : AddSupplier(Acme, phone)
    /\ SuppliersCap(MaxSuppliers, 0)

RatingsUpdateRating ==
    \E supplier_id \in RatingSupplierIds, rating \in {0 - 1, 0, 32, 55} :
        UpdateSupplier(supplier_id, "7", rating)

RatingsUpdateOther ==
    \E supplier_id \in RatingSupplierIds :
        \/ \E status \in {"Inactive", "Closed"} : UpdateSupplier(supplier_id, "8", status)
        \/ UpdateSupplier(supplier_id, "2", Acme)
        \/ UpdateSupplier(supplier_id, "9", <<>>)

NextRatings == RatingsAddSupplier \/ RatingsUpdateRating \/ RatingsUpdateOther

SpecRatings == Init /\ [][NextRatings]_vars

\* the stored suppliers with this ID
SupplierAt(file, supplier_id) == {i \in 1..Len(file) : file[i].id = supplier_id}

(* C12: supplier rating bounds.  Every stored supplier has a rating        *)
(* between 0 and 5; a rating update outside that range is rejected and     *)
(* the stored suppliers stay as they were, and an in-range rating is       *)
(* stored exactly for the supplier selected, every other field and every   *)
(* other supplier unchanged.                                               *)
C12_RatingBounds ==
    /\ [](\A i \in 1..Len(suppliersFile) :
            0 <= suppliersFile[i].rating /\ suppliersFile[i].rating <= 50)
    /\ [][(/\ last'.op = "update_supplier"
           /\ last'.choice = "7"
           /\ SupplierAt(suppliersFile, last'.supplier_id) # {})
          => IF 0 <= last'.value /\ last'.value <= 50
             THEN /\ last'.result = "updated"
                  /\ suppliersFile' =
                       [i \in 1..Len(suppliersFile) |->
                          IF suppliersFile[i].id = last'.supplier_id
                          THEN [suppliersFile[i] EXCEPT !.rating = last'.value]
                          ELSE suppliersFile[i]]
             ELSE /\ last'.result = "invalid_rating"
                  /\ suppliersFile' = suppliersFile]_vars

\* 5.5 was refused for a supplier whose rating had been set to 3.2
C12_Witness ==
    /\ last.op = "update_supplier"
    /\ last.choice = "7"
    /\ last.value = 55
    /\ last.result = "invalid_rating"
    /\ \E i \in SupplierAt(suppliersFile, last.supplier_id) : suppliersFile[i].rating = 32

----------------------------------------------------------------------------
(* SpecPhones: SupplierService.add_supplier, update_supplier (name and     *)
(* phone choices) and delete_supplier.                                     *)

PhoneSupplierIds == 1..(MaxSuppliers + 1)

Phones == {"9000000001", "9000000002"}

PhonesAddSupplier ==
    /\ \E phone \in Phones : AddSupplier(Acme, phone)
    /\ SuppliersCap(MaxSuppliers, 0)

PhonesUpdateSupplier ==
    \E supplier_id \in PhoneSupplierIds :
        \/ \E phone \in Phones : UpdateSupplier(supplier_id, "3", phone)
        \/ UpdateSupplier(supplier_id, "1", Rice)

PhonesDeleteSupplier ==
    \E supplier_id \in PhoneSupplierIds, confirm \in {Yes, No} :
        DeleteSupplier(supplier_id, confirm)

NextPhones == PhonesAddSupplier \/ PhonesUpdateSupplier \/ PhonesDeleteSupplier

SpecPhones == Init /\ [][NextPhones]_vars

(* C13: supplier phone uniqueness.  After any sequence of add_supplier,    *)
(* update_supplier and delete_supplier no two stored suppliers have the    *)
(* same phone; adding a supplier whose phone is already stored is rejected *)
(* and leaves the stored suppliers unchanged.                              *)
C13_PhoneUniqueness ==
    /\ [](\A i, j \in 1..Len(suppliersFile) :
            suppliersFile[i].phone = suppliersFile[j].phone => i = j)
    /\ [][(/\ last'.op = "add_supplier"
           /\ \E i \in 1..Len(suppliersFile) : suppliersFile[i].phone = last'.phone)
          => (last'.result = "duplicate" /\ suppliersFile' = suppliersFile)]_vars

----------------------------------------------------------------------------
(* SpecSignup: AuthService.signup called with phones that repeat, starting *)
(* from the bootstrap users file.                                          *)

SignupPhones == {"9876543210", "9876543211", "9876543212", "+919876543210"}

UsersCap == Len(usersFile') <= MaxUsers

SignupAny ==
    /\ \E name \in {Rice}, phone \in SignupPhones, password \in {"Secret1!", "Secret2!"} :
          Signup(name, "01-01-2000", phone, "Pune", password)
    /\ UsersCap

NextSignup == SignupAny

SpecSignup == Init /\ [][NextSignup]_vars

(* C14: user phone uniqueness.  After any sequence of signups from the     *)
(* bootstrap users no two stored users have the same phone; a signup with  *)
(* a phone that is already stored adds nothing and leaves the stored       *)
(* users unchanged.                                                        *)
C14_UserPhoneUniqueness ==
    /\ [](\A i, j \in 1..Len(usersFile) :
            usersFile[i].phone = usersFile[j].phone => i = j)
    /\ [][(/\ last'.op = "signup"
           /\ \E i \in 1..Len(usersFile) : usersFile[i].phone = last'.phone)
          => (last'.result = "exists" /\ usersFile' = usersFile)]_vars

\* a signup with the phone of the second stored user was turned away
C14_Witness ==
    /\ last.op = "signup"
    /\ last.result = "exists"
    /\ Len(usersFile) >= 3
    /\ usersFile[2].phone = last.phone
    /\ usersFile[1] = BootstrapUsers[1]

----------------------------------------------------------------------------
(* SpecPurchase: a purchase order recorded in one session while another    *)
(* session of the program adds and deletes products on the same files.     *)

PurchaseStock ==
    /\ \E name \in {Milk, Rice} : AddProduct(name, Dairy, 1, 2)
    /\ ProductsCap(MaxProducts, MaxQty)

PurchaseDeleteProduct == \E prod_id \in 1..(MaxProducts + 1) : DeleteProduct(prod_id)

PurchaseAddSupplier ==
    /\ AddSupplier(Acme, "9000000001")
    /\ SuppliersCap(1, 1)

PurchasePrompt ==
    \E product_id \in 1..(MaxProducts + 1), quantity \in {0, 1} :
        PurchaseOrderPrompt(1, product_id, quantity, 3)

PurchaseConfirm ==
    /\ \E confirm \in {Yes, No} : PurchaseOrderConfirm(confirm)
    /\ ProductsCap(MaxProducts, MaxQty)
    /\ SuppliersCap(1, 1)

NextPurchase ==
    \/ PurchaseStock \/ PurchaseDeleteProduct \/ PurchaseAddSupplier
    \/ PurchasePrompt \/ PurchaseConfirm

SpecPurchase == Init /\ [][NextPurchase]_vars

\* total_orders and total_amount of every stored supplier, by position
SupplierTotals(file) ==
    [i \in 1..Len(file) |-> <<file[i].id, file[i].total_orders, file[i].total_amount>>]

(* C15: a purchase order is one transaction.  When record_purchase_order   *)
(* does not apply the restock to the stored products (restock or           *)
(* update_product returns False), the stored total_orders and total_amount *)
(* of the suppliers are not changed.                                       *)
C15_PurchaseTransaction ==
    [][(/\ last'.op = "record_purchase_order"
        /\ last'.result = "recorded"
        /\ ~last'.restocked)
       => SupplierTotals(suppliersFile') = SupplierTotals(suppliersFile)]_vars

----------------------------------------------------------------------------
(* The backing file of one repository as the operating system holds it.    *)
(* obj = [repo, content]; content is one of                                *)
(*   [kind |-> "absent"]                 no such file                      *)
(*   [kind |-> "bytes"]                  bytes the text decoding refuses   *)
(*   [kind |-> "text", text |-> ...]     text json.load cannot parse:      *)
(*                                       "empty", "partial" or "garbage"   *)
(*   [kind |-> "json", value |-> ...]    a JSON document: an array of      *)
(*                                       mappings, an object or a number   *)

Repositories == {"users", "products", "orders", "suppliers"}

\* the keys from_dict reads with data[...] (of the fields the model keeps)
RequiredKeys(repo) ==
    CASE repo = "users" -> {"name", "dob", "phone", "location", "password"}
      [] repo = "products" -> {"id", "name", "category", "quantity", "price"}
      [] repo = "orders" -> {"order_id", "customer_name", "customer_phone"}
      [] repo = "suppliers" -> {"id", "name", "phone"}

\* from_dict(d) raises KeyError
FromDictRaises(repo, d) ==
    \/ ~(RequiredKeys(repo) \subseteq DOMAIN d)
    \/ /\ repo = "orders"
       /\ \E i \in 1..Len(Get(d, "items", <<>>)) :
             ~({"product_id", "product_name", "quantity", "price"}
                  \subseteq DOMAIN Get(d, "items", <<>>)[i])

FromDicts(repo, elems, t) ==
    CASE repo = "users" -> LoadUsers(elems)
      [] repo = "products" -> LoadProducts(elems)
      [] repo = "orders" -> LoadOrders(elems, t)
      [] repo = "suppliers" -> LoadSuppliers(elems, t)

ToDicts(repo, entities) ==
    CASE repo = "users" -> SaveUsers(entities)
      [] repo = "products" -> SaveProducts(entities)
      [] repo = "orders" -> SaveOrders(entities)
      [] repo = "suppliers" -> SaveSuppliers(entities)

Returned(entities) == [raised |-> "none", result |-> entities]

Raised(exception) == [raised |-> exception, result |-> <<>>]

\* load_all: os.path.exists, open, json.load under "except json.JSONDecodeError",
\* then from_dict on each element of the document
load_all(repo, content, t) ==
    IF content.kind = "absent" THEN Returned(<<>>)
    ELSE IF content.kind = "bytes" THEN Raised("UnicodeDecodeError")
    ELSE IF content.kind = "text" THEN Returned(<<>>)
    ELSE LET value == content.value
         IN IF value.type = "number" THEN Raised("TypeError")
            ELSE IF value.type = "object"
            THEN IF value.keys = {} THEN Returned(<<>>) ELSE Raised("TypeError")
            ELSE IF \E i \in 1..Len(value.elems) : FromDictRaises(repo, value.elems[i])
            THEN Raised("KeyError")
            ELSE Returned(FromDicts(repo, value.elems, t))

JsonArray(elems) == [kind |-> "json", value |-> [type |-> "array", elems |-> elems]]

LoadAllCall ==
    /\ pending = NoPending
    /\ LET r == load_all(obj.repo, obj.content, now)
       IN last' = [op |-> "load_all", content |-> obj.content,
                   raised |-> r.raised, result |-> r.result]
    /\ UNCHANGED <<usersFile, productsFile, ordersFile, suppliersFile, cart, now, obj,
                   hist, pending>>

(* save_all, one system call after the other: open(path, "w") truncates    *)
(* the file, the to_dict list is built, json.dump writes the document in   *)
(* pieces.  A failure (to_dict or json.dump raises, the write fails, the   *)
(* process is stopped) ends the call where it stands.                      *)

SaveAllOpen(entities) ==
    /\ pending = NoPending
    /\ load_all(obj.repo, obj.content, now).raised = "none"
    /\ pending' = [op |-> "save_all", entities |-> entities, stage |-> "opened",
                   previous |-> load_all(obj.repo, obj.content, now).result]
    /\ obj' = [obj EXCEPT !.content = [kind |-> "text", text |-> "empty"]]
    /\ last' = [op |-> "save_all", result |-> "opened"]
    /\ UNCHANGED <<usersFile, productsFile, ordersFile, suppliersFile, cart, now, hist>>

SaveAllWritePart ==
    /\ pending.op = "save_all"
    /\ pending.stage = "opened"
    /\ pending.entities # <<>>
    /\ pending' = [pending EXCEPT !.stage = "writing"]
    /\ obj' = [obj EXCEPT !.content = [kind |-> "text", text |-> "partial"]]
    /\ last' = [op |-> "save_all", result |-> "writing"]
    /\ UNCHANGED <<usersFile, productsFile, ordersFile, suppliersFile, cart, now, hist>>

SaveAllFinish ==
    /\ pending.op = "save_all"
    /\ pending' = NoPending
    /\ obj' = [obj EXCEPT !.content = JsonArray(ToDicts(obj.repo, pending.entities))]
    /\ last' = [op |-> "save_all", result |-> "saved",
                previous |-> pending.previous, entities |-> pending.entities]
    /\ UNCHANGED <<usersFile, productsFile, ordersFile, suppliersFile, cart, now, hist>>

SaveAllFail ==
    /\ pending.op = "save_all"
    /\ pending' = NoPending
    /\ last' = [op |-> "save_all", result |-> "failed",
                previous |-> pending.previous, entities |-> pending.entities]
    /\ UNCHANGED <<usersFile, productsFile, ordersFile, suppliersFile, cart, now, obj, hist>>

----------------------------------------------------------------------------
(* SpecFiles: load_all and save_all of one repository, chosen at the       *)
(* start, on a backing file in any condition.                              *)

SamplePhones == <<"9876543210", "9876543211", "9876543212", "9876543213">>

SampleEntity(repo, i) ==
    CASE repo = "users" -> User(Rice, "01-01-2000", SamplePhones[i], "Pune", "Secret1!", "user")
      [] repo = "products" -> Product(i, Milk, Dairy, i, 2)
      [] repo = "orders" -> RevOrder(i, "Completed", 1)
      [] repo = "suppliers" -> Supplier(i, Acme, SamplePhones[i], 0)

SampleCollections(repo) ==
    {[i \in 1..n |-> SampleEntity(repo, i)] : n \in 0..MaxFileEntities}

Without(d, key) == [k \in DOMAIN d \ {key} |-> d[k]]

\* an array in which one element lacks a key from_dict reads
IncompleteArrays(repo) ==
    LET key == IF repo = "orders" THEN "customer_name" ELSE "name"
    IN {[ToDicts(repo, c) EXCEPT ![i] = Without(@, key)] :
           <<c, i>> \in {x \in SampleCollections(repo) \X (1..MaxFileEntities) :
                            x[2] <= Len(x[1])}}

FileContents(repo) ==
    {[kind |-> "absent"], [kind |-> "bytes"],
     [kind |-> "text", text |-> "empty"], [kind |-> "text", text |-> "garbage"],
     [kind |-> "json", value |-> [type |-> "number"]],
     [kind |-> "json", value |-> [type |-> "object", keys |-> {}]],
     [kind |-> "json", value |-> [type |-> "object", keys |-> {repo}]]}
    \cup {JsonArray(ToDicts(repo, c)) : c \in SampleCollections(repo)}
    \cup {JsonArray(elems) : elems \in IncompleteArrays(repo)}

InitFiles ==
    /\ EmptyStore
    /\ hist = NoHist
    /\ \E repo \in Repositories :
          \E content \in FileContents(repo) : obj = [repo |-> repo, content |-> content]

FilesSaveAllOpen == \E entities \in SampleCollections(obj.repo) : SaveAllOpen(entities)

NextFiles ==
    \/ LoadAllCall \/ FilesSaveAllOpen \/ SaveAllWritePart \/ SaveAllFinish \/ SaveAllFail

SpecFiles == InitFiles /\ [][NextFiles]_vars

(* C16: corrupted-file resilience.  For each repository load_all returns   *)
(* an empty sequence and does not raise when the backing file is absent    *)
(* or its content is not parseable JSON.                                   *)
C16_CorruptedFileResilience ==
    (last.op = "load_all" /\ last.content.kind \in {"absent", "bytes", "text"})
        => (last.raised = "none" /\ last.result = <<>>)

\* the content is an array of mappings from which from_dict builds every entity
ArrayOfComplete(repo, value) ==
    /\ value.type = "array"
    /\ \A i \in 1..Len(value.elems) : ~FromDictRaises(repo, value.elems[i])

(* C20: structurally invalid content is no data.  For each repository      *)
(* load_all returns an empty sequence and does not raise when the file is  *)
(* parseable JSON that is not an array of complete entity mappings.        *)
C20_InvalidStructureIsNoData ==
    (/\ last.op = "load_all"
     /\ last.content.kind = "json"
     /\ ~ArrayOfComplete(obj.repo, last.content.value))
        => (last.raised = "none" /\ last.result = <<>>)

(* C17: save_all replaces the collection atomically.  After any save_all   *)
(* call, one that fails part-way included, load_all returns the complete   *)
(* previous collection or the complete new one.                            *)
C17_SaveAllAtomic ==
    (last.op = "save_all" /\ last.result \in {"saved", "failed"})
        => load_all(obj.repo, obj.content, now)
              \in {Returned(last.previous), Returned(last.entities)}

----------------------------------------------------------------------------
(* SpecRepoUpdate: update_product, update_order and update_supplier of the *)
(* repositories called directly on a stored collection, chosen at the      *)
(* start, whose IDs are distinct and in the order of insertion.            *)

RepoIds == 1..MaxRepoId

RECURSIVE SortedSeq(_)
SortedSeq(S) == IF S = {} THEN <<>> ELSE <<MinOf(S)>> \o SortedSeq(S \ {MinOf(S)})

StoredCollection(repo, ids) ==
    ToDicts(repo, [i \in 1..Cardinality(ids) |-> SampleEntity(repo, SortedSeq(ids)[i])])

InitRepoUpdate ==
    /\ cart = <<>>
    /\ now = 0
    /\ last = [op |-> "start"]
    /\ usersFile = BootstrapUsers
    /\ pending = NoPending
    /\ hist = NoHist
    /\ obj = NoObject
    /\ \E repo \in {"products", "orders", "suppliers"}, ids \in SUBSET RepoIds :
          /\ productsFile = IF repo = "products" THEN StoredCollection(repo, ids) ELSE <<>>
          /\ ordersFile = IF repo = "orders" THEN StoredCollection(repo, ids) ELSE <<>>
          /\ suppliersFile = IF repo = "suppliers" THEN StoredCollection(repo, ids) ELSE <<>>

RepoUpdateProduct ==
    \E id \in RepoIds, quantity \in {5, 6} :
        LET product == Product(id, Rice, Food, quantity, 3)
            r == repo_update_product(productsFile, product)
        IN /\ productsFile' = r.file
           /\ last' = [op |-> "update", repo |-> "products", id |-> id, ok |-> r.ok,
                       entity |-> ProductToDict(product)]
           /\ UNCHANGED <<usersFile, ordersFile, suppliersFile, cart, now, obj, hist, pending>>

RepoUpdateOrder ==
    \E id \in RepoIds, status \in {"Shipped", "Cancelled"} :
        LET order == RevOrder(id, status, 2)
            r == repo_update_order(ordersFile, order, now)
        IN /\ ordersFile' = r.file
           /\ last' = [op |-> "update", repo |-> "orders", id |-> id, ok |-> r.ok,
                       entity |-> OrderToDict(order)]
           /\ UNCHANGED <<usersFile, productsFile, suppliersFile, cart, now, obj, hist, pending>>

RepoUpdateSupplier ==
    \E id \in RepoIds, rating \in {10, 20} :
        LET supplier == update_rating(Supplier(id, Rice, "9000000009", now), rating).supplier
            r == repo_update_supplier(suppliersFile, supplier, now)
        IN /\ suppliersFile' = r.file
           /\ last' = [op |-> "update", repo |-> "suppliers", id |-> id, ok |-> r.ok,
                       entity |-> SupplierToDict(supplier)]
           /\ UNCHANGED <<usersFile, productsFile, ordersFile, cart, now, obj, hist, pending>>

NextRepoUpdate == RepoUpdateProduct \/ RepoUpdateOrder \/ RepoUpdateSupplier

SpecRepoUpdate == InitRepoUpdate /\ [][NextRepoUpdate]_vars

\* what update(entity) may do to the stored collection: before, after, the ID key
UpdateContract(before, after, key, id, entity, ok) ==
    /\ ok <=> \E i \in 1..Len(before) : before[i][key] = id
    /\ ok => /\ Len(after) = Len(before)
             /\ \A i \in 1..Len(before) :
                   after[i] = IF before[i][key] = id THEN entity ELSE before[i]
    /\ ~ok => after = before

(* C18: repository update.  update_product, update_order and               *)
(* update_supplier return True exactly when an entity with the same ID is  *)
(* stored; then that entity is replaced at its position and every other    *)
(* entity and the size are unchanged; when they return False the stored    *)
(* collection stays as it was.                                             *)
C18_RepositoryUpdate ==
    [][last'.op = "update"
       => /\ last'.repo = "products" =>
                UpdateContract(productsFile, productsFile', "id",
                               last'.id, last'.entity, last'.ok)
          /\ last'.repo = "orders" =>
                UpdateContract(ordersFile, ordersFile', "order_id",
                               last'.id, last'.entity, last'.ok)
          /\ last'.repo = "suppliers" =>
                UpdateContract(suppliersFile, suppliersFile', "id",
                               last'.id, last'.entity, last'.ok)]_vars

\* the second of three stored products was replaced, its neighbours are as sampled
C18_Witness ==
    /\ last.op = "update"
    /\ last.repo = "products"
    /\ last.ok
    /\ Len(productsFile) = 3
    /\ productsFile[2] = last.entity
    /\ productsFile[1] = ProductToDict(SampleEntity("products", 1))
    /\ productsFile[3] = ProductToDict(SampleEntity("products", 3))

----------------------------------------------------------------------------
(* SpecCart: ShoppingCart.add_item and remove_item called directly on a    *)
(* new cart.  hist.added keeps, per product ID, the sum of the quantities  *)
(* added since the product's line was last removed; hist.removed the IDs   *)
(* that remove_item was called with.                                       *)

CartProductIds == {1, 2, 3}

InitCart ==
    /\ EmptyStore
    /\ obj = NoObject
    /\ hist = [added |-> [id \in CartProductIds |-> 0], removed |-> {}]

CartAddItem ==
    \E id \in CartProductIds, quantity \in {1, 2} :
        /\ cart' = cart_add_item(cart, Product(id, Rice, Food, 50, 3), quantity)
        /\ CartCap(MaxCartQty)
        /\ hist' = [hist EXCEPT !.added[id] = @ + quantity]
        /\ last' = [op |-> "add_item", id |-> id, quantity |-> quantity]
        /\ UNCHANGED <<pending, usersFile, productsFile, ordersFile, suppliersFile, now, obj>>

CartRemoveItem ==
    \E id \in CartProductIds :
        /\ cart' = cart_remove_item(cart, id)
        /\ hist' = [hist EXCEPT !.added[id] = 0, !.removed = @ \cup {id}]
        /\ last' = [op |-> "remove_item", id |-> id]
        /\ UNCHANGED <<pending, usersFile, productsFile, ordersFile, suppliersFile, now, obj>>

NextCart == CartAddItem \/ CartRemoveItem

SpecCart == InitCart /\ [][NextCart]_vars

(* C19: cart accumulation.  After any sequence of add_item and remove_item *)
(* calls the cart holds at most one line per product ID, and the quantity  *)
(* of a product's line is the sum of the quantities added for that product *)
(* since its line was last removed.                                        *)
C19_CartAccumulation ==
    /\ \A i, j \in 1..Len(cart) : cart[i].id = cart[j].id => i = j
    /\ \A i \in 1..Len(cart) : cart[i].qty = hist.added[cart[i].id]
    /\ \A id \in CartProductIds :
          hist.added[id] > 0 => \E i \in 1..Len(cart) : cart[i].id = id

\* product 1 was removed, then added again twice behind product 2
C19_Witness ==
    /\ last.op = "add_item"
    /\ last.id = 1
    /\ 1 \in hist.removed
    /\ Len(cart) = 2
    /\ cart[1].id = 2
    /\ cart[2].id = 1
    /\ cart[2].qty = 3

----------------------------------------------------------------------------
(* Checkout, statement by statement.  After the answer "yes" checkout      *)
(* writes the product file once per cart line, then the order file, then   *)
(* clears the cart.  pending holds the order built before the prompt, the  *)
(* index i of the next cart line and whether save_order has returned.      *)
(* hist keeps the product file as it was at the answer, the units this     *)
(* checkout took from the stock and whether its order was recorded.        *)

NoCheckout ==
    [repo |-> "none", inserted |-> 0, deleted |-> FALSE,
     before |-> <<>>, units |-> 0, recorded |-> TRUE]

\* faulty variant of the statement order of checkout: the order is saved first
checkout_pc_order_first(p, items) ==
    IF ~p.saved THEN "save_order"
    ELSE IF p.i <= Len(items) THEN "reduce_stock"
    ELSE "clear"

\* the statement at which a confirmed checkout stands
checkout_pc(p, items) ==
    IF p.saved THEN "clear"
    ELSE IF p.i <= Len(items) THEN "reduce_stock"
    ELSE "save_order"

CheckoutPrompt(confirm) ==
    /\ pending = NoPending
    /\ IF cart = <<>>
       THEN /\ last' = [op |-> "checkout", result |-> "empty"]
            /\ UNCHANGED <<pending, hist>>
       ELSE LET order_id == order_get_next_id(ordersFile, now)
                order == checkout_add_items(
                            Order(order_id, CurrentUser.name, CurrentUser.phone,
                                  "Completed", now), cart)
            IN IF Lower(confirm) # Yes
               THEN /\ last' = [op |-> "checkout", result |-> "declined"]
                    /\ UNCHANGED <<pending, hist>>
               ELSE /\ pending' = [op |-> "checkout", order |-> order, i |-> 1,
                                   saved |-> FALSE]
                    /\ hist' = [NoCheckout EXCEPT !.before = productsFile,
                                                  !.recorded = FALSE]
                    /\ last' = [op |-> "checkout", result |-> "confirmed"]
    /\ UNCHANGED <<usersFile, productsFile, ordersFile, suppliersFile, cart, now, obj>>

CheckoutReduceStock ==
    /\ pending.op = "checkout"
    /\ checkout_pc(pending, cart) = "reduce_stock"
    /\ LET cart_item == cart[pending.i]
           k == product_find_by_id(productsFile, cart_item.id)
           reduced == reduce_stock(LoadProducts(productsFile)[k], cart_item.qty)
       IN IF k = 0
          THEN UNCHANGED <<productsFile, hist>>
          ELSE /\ productsFile' = repo_update_product(productsFile, reduced.product).file
               /\ hist' = [hist EXCEPT !.units =
                              @ + (IF reduced.ok THEN cart_item.qty ELSE 0)]
    /\ pending' = [pending EXCEPT !.i = @ + 1]
    /\ last' = [op |-> "checkout", result |-> "reduce_stock"]
    /\ UNCHANGED <<usersFile, ordersFile, suppliersFile, cart, now, obj>>

CheckoutSaveOrder ==
    /\ pending.op = "checkout"
    /\ checkout_pc(pending, cart) = "save_order"
    /\ ordersFile' = save_order(ordersFile, pending.order, now)
    /\ pending' = [pending EXCEPT !.saved = TRUE]
    /\ hist' = [hist EXCEPT !.recorded = TRUE]
    /\ last' = [op |-> "checkout", result |-> "save_order"]
    /\ UNCHANGED <<usersFile, productsFile, suppliersFile, cart, now, obj>>

CheckoutClearCart ==
    /\ pending.op = "checkout"
    /\ checkout_pc(pending, cart) = "clear"
    /\ cart' = cart_clear(cart)
    /\ pending' = NoPending
    /\ last' = [op |-> "checkout", result |-> "placed"]
    /\ UNCHANGED <<usersFile, productsFile, ordersFile, suppliersFile, now, obj, hist>>

\* open(file_path, "w") of the next write raises OSError; nothing in checkout
\* or user_menu catches it, the files stay as the last completed write left them
CheckoutWriteRaises ==
    /\ pending.op = "checkout"
    /\ checkout_pc(pending, cart) \in {"reduce_stock", "save_order"}
    /\ checkout_pc(pending, cart) = "reduce_stock" =>
          product_find_by_id(productsFile, cart[pending.i].id) # 0
    /\ pending' = NoPending
    /\ last' = [op |-> "checkout", result |-> "raised", exception |-> "OSError"]
    /\ UNCHANGED <<usersFile, productsFile, ordersFile, suppliersFile, cart, now, obj, hist>>

(* SpecCheckoutSteps: one shopper session; between two checkouts products  *)
(* are stocked and put into the cart.                                      *)

InitCheckoutSteps == EmptyStore /\ obj = NoObject /\ hist = NoCheckout

StepsStock ==
    /\ pending = NoPending
    /\ \E name \in {Milk, Rice} : AddProduct(name, Dairy, 1, 2)
    /\ ProductsCap(StepsMaxProducts, StepsMaxQty)

StepsAddToCart ==
    /\ pending = NoPending
    /\ \E product_id \in 1..StepsMaxProducts : AddToCart(product_id, 1)
    /\ CartCap(StepsMaxQty)

StepsCheckoutPrompt ==
    /\ Len(ordersFile) < StepsMaxOrders
    /\ \E confirm \in {Yes, No} : CheckoutPrompt(confirm)

NextCheckoutSteps ==
    \/ StepsStock
    \/ StepsAddToCart
    \/ StepsCheckoutPrompt
    \/ CheckoutReduceStock
    \/ CheckoutSaveOrder
    \/ CheckoutClearCart
    \/ CheckoutWriteRaises

SpecCheckoutSteps == InitCheckoutSteps /\ [][NextCheckoutSteps]_vars

\* the order of the checkout under way is in the order file
OrderStored == \E n \in 1..Len(ordersFile) : ordersFile[n] = OrderToDict(pending.order)

(* C21: checkout ordering.  Within one confirmed checkout every stock      *)
(* decrement is written to the product file before the new order is        *)
(* written to the order file, and the cart is cleared only after the order *)
(* is written: the new order is never stored while a cart line of that     *)
(* checkout is still to be written.                                        *)
C21_CheckoutOrdering ==
    /\ [](pending.op = "checkout" /\ OrderStored
            => /\ pending.i > Len(cart)
               /\ productsFile = checkout_update_quantities(hist.before, cart))
    /\ [][pending.op = "checkout" /\ cart' # cart => OrderStored /\ cart' = <<>>]_vars

\* the order of a two-line checkout is stored, both decrements are written, the cart is still full
C21_Witness ==
    /\ pending.op = "checkout"
    /\ OrderStored
    /\ Len(cart) = 2
    /\ hist.units = 2
    /\ productsFile # hist.before

(* C22: no partial checkout.  In no state in which checkout has returned  *)
(* or raised, a write failure during checkout included, has the stored     *)
(* stock been decremented by a checkout whose order is not in the order    *)
(* file.                                                                   *)
C22_NoPartialCheckout ==
    pending = NoPending /\ hist.units > 0
        => hist.recorded

----------------------------------------------------------------------------
(* SpecCheckoutFrame: one shopper session with checkouts that are refused, *)
(* declined and confirmed, the answer typed in several ways.               *)

Answers == {Yes, YES, No, <<"y">>, <<>>}

FrameStock ==
    /\ \E name \in {Milk, Rice} : AddProduct(name, Dairy, 2, 2)
    /\ ProductsCap(FrameMaxProducts, 2)

FrameAddToCart ==
    /\ \E product_id \in 1..FrameMaxProducts : AddToCart(product_id, 1)
    /\ CartCap(2)

FrameCheckout ==
    /\ \E confirm \in Answers : Checkout(confirm)
    /\ OrdersCap(FrameMaxOrders, FrameMaxOrders)

NextCheckoutFrame == FrameStock \/ FrameAddToCart \/ FrameCheckout

SpecCheckoutFrame == Init /\ [][NextCheckoutFrame]_vars

(* C23: a checkout that does not go through changes nothing durable.  With *)
(* an empty cart, or an answer that is not "yes" (compared in lower case,  *)
(* as the code does), the product file and the order file are unchanged,   *)
(* and after a declined checkout the cart keeps all its lines; a confirmed *)
(* checkout leaves the cart empty.                                         *)
C23_CheckoutFrame ==
    [][last'.op = "checkout"
       => /\ (cart = <<>> \/ Lower(last'.confirm) # Yes)
               => productsFile' = productsFile /\ ordersFile' = ordersFile
          /\ (cart # <<>> /\ Lower(last'.confirm) # Yes) => cart' = cart
          /\ (cart # <<>> /\ Lower(last'.confirm) = Yes)
               => cart' = <<>> /\ Len(ordersFile') = Len(ordersFile) + 1]_vars

\* a checkout answered "y" left a two-line cart, the stock and the empty order file alone
C23_Witness ==
    /\ last.op = "checkout"
    /\ last.result = "declined"
    /\ last.confirm = <<"y">>
    /\ Len(cart) = 2
    /\ ordersFile = <<>>
    /\ \A i \in 1..Len(productsFile) : productsFile[i].quantity = 2

----------------------------------------------------------------------------
(* record_purchase_order from the answer on, write by write: the product   *)
(* is restocked and written, then the supplier's purchase is recorded and  *)
(* written.  pending is the record PurchaseOrderPrompt left.               *)

PurchaseOrderRestock(confirm) ==
    /\ pending.op = "record_purchase_order"
    /\ IF Lower(confirm) = Yes
       THEN /\ productsFile' =
                 repo_update_product(productsFile,
                                     restock(pending.product, pending.quantity).product).file
            /\ pending' = [pending EXCEPT !.op = "record_purchase"]
            /\ last' = [op |-> "record_purchase_order", result |-> "restocked",
                        confirm |-> confirm]
       ELSE /\ pending' = NoPending
            /\ last' = [op |-> "record_purchase_order", result |-> "cancelled",
                        confirm |-> confirm]
            /\ UNCHANGED productsFile
    /\ UNCHANGED <<usersFile, ordersFile, suppliersFile, cart, now, obj, hist>>

PurchaseOrderRecord ==
    /\ pending.op = "record_purchase"
    /\ suppliersFile' =
          repo_update_supplier(suppliersFile,
                               record_purchase(pending.supplier, pending.total_cost), now).file
    /\ pending' = NoPending
    /\ last' = [op |-> "record_purchase_order", result |-> "recorded"]
    /\ UNCHANGED <<usersFile, productsFile, ordersFile, cart, now, obj, hist>>

(* SpecPurchaseSteps: one admin session that stocks products, adds         *)
(* suppliers and records purchase orders.                                  *)

PurchaseStepsStock ==
    /\ pending = NoPending
    /\ \E name \in {Milk, Rice} : AddProduct(name, Dairy, 1, 2)
    /\ ProductsCap(PurchaseMaxProducts, PurchaseMaxQty)

PurchaseStepsAddSupplier ==
    /\ pending = NoPending
    /\ \E phone \in Phones : AddSupplier(Acme, phone)
    /\ SuppliersCap(PurchaseMaxSuppliers, PurchaseMaxOrders)

PurchaseStepsPrompt ==
    \E supplier_id \in 1..PurchaseMaxSuppliers, product_id \in 1..PurchaseMaxProducts,
       quantity \in {0, 1, 2}, price_per_unit \in {0, 3} :
        PurchaseOrderPrompt(supplier_id, product_id, quantity, price_per_unit)

PurchaseStepsRestock ==
    /\ \E confirm \in {Yes, No} : PurchaseOrderRestock(confirm)
    /\ ProductsCap(PurchaseMaxProducts, PurchaseMaxQty)
    /\ pending'.op = "record_purchase" =>
          pending.supplier.total_orders < PurchaseMaxOrders

NextPurchaseSteps ==
    \/ PurchaseStepsStock \/ PurchaseStepsAddSupplier
    \/ PurchaseStepsPrompt \/ PurchaseStepsRestock \/ PurchaseOrderRecord

SpecPurchaseSteps == Init /\ [][NextPurchaseSteps]_vars

\* the collection after differs from the one before at the entity with this ID only
OnlyChanged(before, after, id) ==
    /\ Len(after) = Len(before)
    /\ \A i \in 1..Len(before) : before[i].id # id => after[i] = before[i]

(* C24: a confirmed purchase order of q > 0 units at unit price p > 0 from *)
(* supplier s for product x raises x's stored quantity by q, s's stored    *)
(* total_orders by 1 and total_amount by q*p, writes the product before    *)
(* the supplier and leaves every other product and supplier unchanged; a   *)
(* declined or invalid purchase order changes nothing.                     *)
C24_PurchaseOrderEffect ==
    [][last'.op = "record_purchase_order"
       => LET q == pending.quantity
              x == pending.product.id
              s == pending.supplier.id
              kx == product_find_by_id(productsFile, x)
              ks == supplier_find_by_id(suppliersFile, s, now)
          IN /\ pending = NoPending
                  => /\ productsFile' = productsFile /\ suppliersFile' = suppliersFile
                     /\ (last'.quantity <= 0 \/ last'.price_per_unit <= 0)
                           => pending' = NoPending
             /\ pending.op = "record_purchase_order"
                  => /\ suppliersFile' = suppliersFile
                     /\ IF Lower(last'.confirm) = Yes
                        THEN /\ q > 0 /\ pending.price_per_unit > 0
                             /\ OnlyChanged(productsFile, productsFile', x)
                             /\ productsFile'[kx] =
                                   [productsFile[kx] EXCEPT !.quantity = @ + q]
                             /\ pending'.op = "record_purchase"
                        ELSE productsFile' = productsFile /\ pending' = NoPending
             /\ pending.op = "record_purchase"
                  => /\ productsFile' = productsFile
                     /\ OnlyChanged(suppliersFile, suppliersFile', s)
                     /\ suppliersFile'[ks] =
                           [suppliersFile[ks] EXCEPT
                               !.total_orders = @ + 1,
                               !.total_amount = @ + q * pending.price_per_unit]
                     /\ pending' = NoPending]_vars

\* supplier 2 delivered two units of product 2 at price 3; supplier 1 and product 1 are as added
C24_Witness ==
    /\ last.op = "record_purchase_order"
    /\ last.result = "recorded"
    /\ Len(suppliersFile) = 2
    /\ suppliersFile[2].total_orders = 1
    /\ suppliersFile[2].total_amount = 6
    /\ suppliersFile[1].total_orders = 0
    /\ Len(productsFile) = 2
    /\ productsFile[2].quantity = 3
    /\ productsFile[1].quantity = 1

----------------------------------------------------------------------------
(* SpecSnapshot: products are sold, then renamed, re-priced and deleted.   *)

SnapshotProductIds == {1, 2}

SnapshotStock ==
    /\ \E name \in {Milk, Rice} : AddProduct(name, Dairy, 1, 2)
    /\ last'.result = "added"
    /\ ProductsCap(1, 1)

SnapshotAddToCart ==
    /\ \E product_id \in SnapshotProductIds : AddToCart(product_id, 1)
    /\ CartCap(1)

SnapshotCheckout == Checkout(Yes) /\ OrdersCap(SnapshotMaxOrders, SnapshotMaxOrders)

SnapshotUpdateProduct ==
    \E prod_id \in SnapshotProductIds :
        \/ UpdateProduct(prod_id, "1", Salt)
        \/ UpdateProduct(prod_id, "4", 5)

SnapshotDeleteProduct == \E prod_id \in SnapshotProductIds : DeleteProduct(prod_id)

NextSnapshot ==
    \/ SnapshotStock \/ SnapshotAddToCart \/ SnapshotCheckout
    \/ SnapshotUpdateProduct \/ SnapshotDeleteProduct

SpecSnapshot == Init /\ [][NextSnapshot]_vars

\* what the order views show: the stored orders as load_all returns them, with their totals
LoadedOrders ==
    LET orders == LoadOrders(ordersFile, now)
    IN [n \in 1..Len(orders) |->
          [order |-> orders[n], total |-> calculate_total(orders[n])]]

(* C25: snapshot stability.  Renaming, re-pricing or deleting a product    *)
(* through update_product / delete_product leaves the order file           *)
(* unchanged: every order item keeps its product_name, price and quantity  *)
(* and every order its total and order_date, also as loaded afterwards.    *)
C25_SnapshotStability ==
    [][last'.op \in {"update_product", "delete_product"}
       => /\ ordersFile' = ordersFile
          /\ LoadedOrders' = LoadedOrders
          /\ \A n \in 1..Len(ordersFile) :
                /\ LoadedOrders'[n].order.order_date = ordersFile[n].order_date
                /\ LoadedOrders'[n].total =
                      ItemsValue(ordersFile[n].items, Len(ordersFile[n].items))]_vars

\* product 1 was sold as Milk at price 2 and is now called Salt; the order still says Milk
C25_Witness ==
    /\ last.op = "update_product"
    /\ last.result = "updated"
    /\ last.choice = "1"
    /\ Len(ordersFile) = 1
    /\ ordersFile[1].items[1].product_id = 1
    /\ ordersFile[1].items[1].product_name = Milk
    /\ \E i \in 1..Len(productsFile) :
          productsFile[i].id = 1 /\ productsFile[i].name = Salt

----------------------------------------------------------------------------
(* restock_product in two steps, for runs in which a shopper's process     *)
(* writes the product file while the admin's process waits at "Enter       *)
(* quantity to add": up to that prompt, and from the answer on.            *)

RestockPrompt(product_id) ==
    /\ pending = NoPending
    /\ LET products == LoadProducts(productsFile)
           k == product_find_by_id(productsFile, product_id)
       IN IF products = <<>>
          THEN /\ last' = [op |-> "restock_product", result |-> "no_products"]
               /\ UNCHANGED pending
          ELSE IF k = 0
          THEN /\ last' = [op |-> "restock_product", result |-> "not_found"]
               /\ UNCHANGED pending
          ELSE /\ pending' = [op |-> "restock_product", product |-> products[k]]
               /\ last' = [op |-> "restock_product", result |-> "prompt"]
    /\ UNCHANGED <<usersFile, productsFile, ordersFile, suppliersFile, cart, now, obj, hist>>

RestockWrite(quantity) ==
    /\ pending.op = "restock_product"
    /\ pending' = NoPending
    /\ IF quantity <= 0
       THEN /\ last' = [op |-> "restock_product", result |-> "invalid_quantity"]
            /\ UNCHANGED productsFile
       ELSE /\ productsFile' =
                 repo_update_product(productsFile,
                                     restock(pending.product, quantity).product).file
            /\ last' = [op |-> "restock_product", result |-> "restocked",
                        product_id |-> pending.product.id, quantity |-> quantity,
                        read |-> pending.product.quantity]
    /\ UNCHANGED <<usersFile, ordersFile, suppliersFile, cart, now, obj, hist>>

(* SpecInterleave: an admin process restocking product 1 and a shopper     *)
(* process buying it, their reads and writes of the product file in any    *)
(* order.                                                                  *)

InterleaveStock ==
    /\ AddProduct(Milk, Dairy, 2, 2)
    /\ last'.result = "added"

InterleaveAddToCart == AddToCart(1, 1) /\ CartCap(1)

InterleaveCheckout ==
    /\ Checkout(Yes)
    /\ OrdersCap(InterleaveMaxOrders, InterleaveMaxOrders)

InterleaveRestockPrompt == \E product_id \in {1, 2} : RestockPrompt(product_id)

InterleaveRestockWrite ==
    /\ \E quantity \in {0, 1} : RestockWrite(quantity)
    /\ ProductsCap(1, InterleaveMaxQty)

NextInterleave ==
    \/ InterleaveStock \/ InterleaveAddToCart \/ InterleaveCheckout
    \/ InterleaveRestockPrompt \/ InterleaveRestockWrite

SpecInterleave == Init /\ [][NextInterleave]_vars

\* the stored quantity of the product with this ID
StoredQuantity(file, product_id) == file[product_find_by_id(file, product_id)].quantity

----------------------------------------------------------------------------
(* SpecCartStock: one shopper session that only fills and empties its cart *)
(* while the stored stock (two units of Milk, one of Rice) stays as it is. *)

InitCartStock ==
    /\ productsFile = repo_add_product(repo_add_product(<<>>, Product(1, Milk, Dairy, 2, 2)),
                                       Product(2, Rice, Food, 1, 3))
    /\ ordersFile = <<>>
    /\ suppliersFile = <<>>
    /\ usersFile = BootstrapUsers
    /\ pending = NoPending
    /\ cart = <<>>
    /\ now = 0
    /\ last = [op |-> "start"]
    /\ obj = NoObject
    /\ hist = NoHist

CartStockAddToCart ==
    /\ \E product_id \in {1, 2, 3}, quantity \in {0, 1, 2, 3} : AddToCart(product_id, quantity)
    /\ CartCap(CartStockMaxQty)

CartStockRemoveFromCart == \E product_id \in {1, 2} : RemoveFromCart(product_id)

NextCartStock == CartStockAddToCart \/ CartStockRemoveFromCart

SpecCartStock == InitCartStock /\ [][NextCartStock]_vars

(* C27: cart lines never exceed stock.  After any sequence of add_to_cart  *)
(* calls during which the stored stock does not change, the quantity of    *)
(* every cart line is at least 1 and at most the stored quantity of its    *)
(* product.                                                                *)
C27_CartWithinStock ==
    \A i \in 1..Len(cart) :
        /\ cart[i].qty >= 1
        /\ cart[i].qty <= StoredQuantity(productsFile, cart[i].id)

----------------------------------------------------------------------------
(* SpecConservation: one process in which products are added, restocked    *)
(* and sold; no quantity is edited and nothing is deleted.                 *)

ConservationStock ==
    /\ pending = NoPending
    /\ \E name \in {Milk, Rice} : AddProduct(name, Dairy, 1, 2)
    /\ ProductsCap(MaxProducts, MaxQty)

ConservationRestockPrompt == \E product_id \in 1..MaxProducts : RestockPrompt(product_id)

ConservationRestockWrite ==
    /\ \E quantity \in {0, 1} : RestockWrite(quantity)
    /\ ProductsCap(MaxProducts, MaxQty)

ConservationAddToCart ==
    /\ pending = NoPending
    /\ \E product_id \in 1..MaxProducts : AddToCart(product_id, 1)
    /\ CartCap(MaxQty)

ConservationCheckout ==
    /\ pending = NoPending
    /\ Checkout(Yes)
    /\ OrdersCap(MaxOrders, MaxOrders)

NextConservation ==
    \/ ConservationStock \/ ConservationRestockPrompt \/ ConservationRestockWrite
    \/ ConservationAddToCart \/ ConservationCheckout

SpecConservation == Init /\ [][NextConservation]_vars

\* the units of this product over the items of a stored order
OrderedUnits(order, product_id) ==
    SumSeq([i \in 1..Len(order.items) |->
               IF order.items[i].product_id = product_id
               THEN order.items[i].quantity ELSE 0])

(* C28: stock conservation.  For every product, after any sequence of      *)
(* confirmed checkouts and restocks, stored quantity = initial quantity +  *)
(* units restocked - units of the product over all items of all stored     *)
(* orders; step by step: a restock adds its units to the stored quantity   *)
(* of its product only, and a confirmed checkout takes from every stored   *)
(* quantity the units the new order lists for that product.                *)
C28_StockConservation ==
    [][/\ Len(productsFile') >= Len(productsFile)
       /\ \A i \in 1..Len(productsFile) :
             productsFile'[i].quantity =
                productsFile[i].quantity
                + (IF /\ last'.op = "restock_product" /\ last'.result = "restocked"
                      /\ last'.product_id = productsFile[i].id
                   THEN last'.quantity ELSE 0)
                - (IF Len(ordersFile') > Len(ordersFile)
                   THEN OrderedUnits(ordersFile'[Len(ordersFile')], productsFile[i].id)
                   ELSE 0)]_vars

----------------------------------------------------------------------------
(* The application flow of main.py: the main menu, login, the admin menu   *)
(* and the user menu.  obj is the position of the program: the menu it     *)
(* shows and, in the user menu, the user value ShoppingService was built   *)
(* with.  A Python value is modelled with its type: attribute access on a  *)
(* dict raises AttributeError.                                             *)

PyDict(items) == [type |-> "dict", value |-> items]

\* v.name for a Python value v
GetAttr(v, name) ==
    IF v.type = "User"
    THEN [raised |-> "none", value |-> v.value[name]]
    ELSE [raised |-> "AttributeError", value |-> <<>>]

MainMenu == [menu |-> "main"]

\* AuthService.login: up to three attempts, each a phone and a password;
\* the index of the user logged in, 0 for None
RECURSIVE login_loop(_, _, _)
login_loop(file, inputs, attempts) ==
    IF attempts = 0 \/ inputs = <<>> THEN 0
    ELSE LET k == user_find_by_phone(file, Head(inputs).phone)
         IN IF k # 0 /\ LoadUsers(file)[k].password = Head(inputs).password
            THEN k
            ELSE login_loop(file, Tail(inputs), attempts - 1)

login(file, inputs) == IF LoadUsers(file) = <<>> THEN 0 ELSE login_loop(file, inputs, 3)

HandleLogin(inputs) ==
    /\ obj = MainMenu
    /\ LET k == login(usersFile, inputs)
           user == LoadUsers(usersFile)[k]
       IN IF k = 0
          THEN /\ last' = [op |-> "handle_login", result |-> "none"]
               /\ UNCHANGED <<obj, cart>>
          ELSE IF user.role = "admin"
          THEN /\ obj' = [menu |-> "admin_menu"]
               /\ last' = [op |-> "handle_login", result |-> "admin", phone |-> user.phone]
               /\ UNCHANGED cart
          ELSE /\ obj' = [menu |-> "user_menu", user |-> PyDict(UserToDict(user))]
               /\ cart' = <<>>
               /\ last' = [op |-> "handle_login", result |-> "user", phone |-> user.phone]
    /\ UNCHANGED <<pending, usersFile, productsFile, ordersFile, suppliersFile, now, hist>>

MenuLogout ==
    /\ obj.menu \in {"admin_menu", "user_menu"}
    /\ obj' = MainMenu
    /\ cart' = <<>>
    /\ last' = [op |-> "logout"]
    /\ UNCHANGED <<pending, usersFile, productsFile, ordersFile, suppliersFile, now, hist>>

\* an exception no menu catches ends the program with a traceback
Exited == [menu |-> "exited"]

MenuCheckout(confirm) ==
    /\ obj.menu = "user_menu"
    /\ IF cart = <<>>
       THEN /\ last' = [op |-> "checkout", result |-> "empty", raised |-> "none"]
            /\ UNCHANGED <<productsFile, ordersFile, cart, obj>>
       ELSE LET order_id == order_get_next_id(ordersFile, now)
                name == GetAttr(obj.user, "name")
                phone == GetAttr(obj.user, "phone")
                order == checkout_add_items(
                            Order(order_id, name.value, phone.value, "Completed", now), cart)
            IN IF name.raised # "none"
               THEN /\ last' = [op |-> "checkout", result |-> "raised",
                                raised |-> name.raised]
                    /\ obj' = Exited
                    /\ UNCHANGED <<productsFile, ordersFile, cart>>
               ELSE IF Lower(confirm) # Yes
               THEN /\ last' = [op |-> "checkout", result |-> "declined", raised |-> "none"]
                    /\ UNCHANGED <<productsFile, ordersFile, cart, obj>>
               ELSE /\ productsFile' = checkout_update_quantities(productsFile, cart)
                    /\ ordersFile' = save_order(ordersFile, order, now)
                    /\ cart' = cart_clear(cart)
                    /\ last' = [op |-> "checkout", result |-> "placed", raised |-> "none"]
                    /\ UNCHANGED obj
    /\ UNCHANGED <<pending, usersFile, suppliersFile, now, hist>>

order_find_by_customer_phone(file, phone, t) ==
    SelectSeq(LoadOrders(file, t), LAMBDA o : o.customer_phone = phone)

MenuViewMyOrders ==
    /\ obj.menu = "user_menu"
    /\ LET phone == GetAttr(obj.user, "phone")
       IN IF phone.raised # "none"
          THEN /\ last' = [op |-> "view_my_orders", result |-> "raised",
                           raised |-> phone.raised]
               /\ obj' = Exited
          ELSE /\ last' = [op |-> "view_my_orders", raised |-> "none",
                           result |-> order_find_by_customer_phone(ordersFile, phone.value, now)]
               /\ UNCHANGED obj
    /\ UNCHANGED <<pending, usersFile, productsFile, ordersFile, suppliersFile, cart, now, hist>>

(* SpecApp: the program from its start: users sign up and log in, the      *)
(* admin adds products, users fill the cart, check out and view their      *)
(* orders.                                                                 *)

InitApp == EmptyStore /\ obj = MainMenu /\ hist = NoHist

AppPhones == {"admin", "9876543210", "9876543211"}

AppPasswords == {"admin123", "Secret1!"}

\* the program is started again; initialize_json_files keeps the files that exist
AppStart ==
    /\ obj = Exited
    /\ obj' = MainMenu
    /\ cart' = <<>>
    /\ last' = [op |-> "main"]
    /\ UNCHANGED <<pending, usersFile, productsFile, ordersFile, suppliersFile, now, hist>>

AppSignup ==
    /\ obj = MainMenu
    /\ \E phone \in AppPhones, password \in AppPasswords :
          Signup(<<"A", "n", "n">>, "01-01-2000", phone, "Pune", password)
    /\ UsersCap

AppLogin ==
    \E phone \in AppPhones, password \in AppPasswords, retry \in AppPasswords :
        HandleLogin(<<[phone |-> phone, password |-> password],
                      [phone |-> phone, password |-> retry]>>)

AppAddProduct ==
    /\ obj.menu = "admin_menu"
    /\ AddProduct(Milk, Dairy, 2, 2)
    /\ ProductsCap(1, 2)

AppAddToCart ==
    /\ obj.menu = "user_menu"
    /\ AddToCart(1, 1)
    /\ CartCap(1)

AppCheckout == \E confirm \in {Yes, No} : MenuCheckout(confirm)

NextApp ==
    \/ AppStart \/ AppSignup \/ AppLogin \/ MenuLogout
    \/ AppAddProduct \/ AppAddToCart \/ AppCheckout \/ MenuViewMyOrders

SpecApp == InitApp /\ [][NextApp]_vars

(* C29: checkout works from the application flow.  For a non-admin user    *)
(* who logged in through handle_login and is in user_menu, checkout with a *)
(* non-empty cart does not fail, and a confirmed one stores an order with  *)
(* that user's name and phone; view_my_orders does not fail either.        *)
C29_CheckoutFromApplication ==
    /\ last.op \in {"checkout", "view_my_orders"} => last.raised = "none"
    /\ last.op = "checkout" /\ last.result = "placed"
          => /\ ordersFile[Len(ordersFile)].customer_name = obj.user.value.name
             /\ ordersFile[Len(ordersFile)].customer_phone = obj.user.value.phone

====
